---- MODULE Spec2Model ----
(***************************************************************************)
(* A model of the option-selling toolkit (xupengufo/optionpick):            *)
(*   - the position store and its wheel-state tracking                      *)
(*     (src/src/utils/persistence.py),                                      *)
(*   - the vertical-spread strategy functions and the ranking function      *)
(*     (src/src/option_analytics/strategies.py, pricing.py),                *)
(*   - the screening engine (src/src/screening/screener.py),                *)
(*   - the risk manager (src/src/risk_management/risk_manager.py),          *)
(*   - the roll advisor (src/src/option_analytics/roll_advisor.py),         *)
(*   - the payoff calculation of the visualizer                             *)
(*     (src/src/visualization/charts.py).                                   *)
(*                                                                          *)
(* Each component has its own specification over the shared variables:      *)
(*   Spec        the position store,                                        *)
(*   SpreadSpec  analyze_bull_put_spread / analyze_bear_call_spread,        *)
(*   RankSpec    rank_selling_opportunities,                                *)
(*   ValidatorSpec  the strategy validators of the screener,                *)
(*   ScreenSpec  the screen_* methods and get_top_opportunities,            *)
(*   ConfigSpec  the same methods of a screener built from a partial config, *)
(*   RiskSpec    the position sizing and risk analysis of the risk manager,  *)
(*   PriceSpec   option_price and analyze_option,                            *)
(*   PayoffSpec  _calculate_payoffs of the visualizer,                       *)
(*   BatchSpec   the screen_* methods on batches with malformed records,     *)
(*   RollSpec    suggest_rolls and get_roll_recommendation,                  *)
(*   WheelSpec   one call of the store or the roll advisor from any store,   *)
(*   StrangleSpec  analyze_short_strangle and the sizing of its result.      *)
(*                                                                          *)
(* Numbers.  The code computes in floating point; the model computes the    *)
(* same expressions in exact rational arithmetic on integers (np.sqrt is    *)
(* taken to two decimal places).  A quote's bid, ask and lastPrice are      *)
(* given in cents; strikes and stock prices are whole dollars.              *)
(***************************************************************************)
EXTENDS Integers, Sequences, FiniteSets, TLC

VARIABLES
    \* ---- the position store (table "positions") ----
    positions,      \* id -> row, for the rows present in the table
    nextId,         \* the next AUTOINCREMENT id
    ret,            \* what the last store call returned (TRUE / FALSE)
    call,           \* observer: the last store call, <<method, wheel-state argument>>
    cycleId,        \* observer: the position a caller walks through the wheel
    cycle,          \* observer: how many steps of the wheel cycle were requested
    \* ---- the spread functions ----
    spreadIn,       \* the arguments: stock_price, short, long, days_to_expiry
    spreadOut,      \* the function applied and the record it returned
    \* ---- rank_selling_opportunities ----
    rankIn,         \* the list of opportunities passed in
    rankOut,        \* the function applied and the list it returned
    \* ---- the validators of OptionsScreener ----
    valIn,          \* the screener's config and the strategy analysis passed in
    valOut,         \* the validator applied, whether it raised, what it returned
    \* ---- OptionsScreener ----
    screenConfig,   \* self.config
    market,         \* what the data manager returns for the symbols
    screenOut,      \* the method applied, its max_results, whether it raised, the list returned
    \* ---- the risk manager ----
    riskIn,         \* the arguments: strategy analysis, capital, position risk, positions
    riskOut,        \* the method applied and what it returned
    \* ---- the pricing functions ----
    priceIn,        \* the arguments of option_price or of analyze_option
    priceOut,       \* the function applied and what it returned
    \* ---- visualizer (OptionsVisualizer payoff calculation) ----
    payIn,          \* arguments of _calculate_payoffs: strategy_analysis, prices
    payOut,         \* method called and the payoff array returned
    \* ---- roll advisor (RollAdvisor) ----
    rollIn,         \* arguments of the roll advisor: position, current_stock_price, current_dte
    rollOut         \* method called and what it returned

storeVars == <<positions, nextId, ret, call, cycleId, cycle>>

spreadVars == <<spreadIn, spreadOut>>

rankVars == <<rankIn, rankOut>>

valVars == <<valIn, valOut>>

screenVars == <<screenConfig, market, screenOut>>

riskVars == <<riskIn, riskOut>>

priceVars == <<priceIn, priceOut>>

payoffVars == <<payIn, payOut>>

rollVars == <<rollIn, rollOut>>

vars == <<storeVars, spreadVars, rankVars, valVars, screenVars, riskVars, priceVars, payoffVars, rollVars>>

nonStoreVars == <<spreadVars, rankVars, valVars, screenVars, riskVars, priceVars, payoffVars, rollVars>>

nonSpreadVars == <<storeVars, rankVars, valVars, screenVars, riskVars, priceVars, payoffVars, rollVars>>

nonRankVars == <<storeVars, spreadVars, valVars, screenVars, riskVars, priceVars, payoffVars, rollVars>>

nonValVars == <<storeVars, spreadVars, rankVars, screenVars, riskVars, priceVars, payoffVars, rollVars>>

nonScreenVars == <<storeVars, spreadVars, rankVars, valVars, riskVars, priceVars, payoffVars, rollVars>>

nonRiskVars == <<storeVars, spreadVars, rankVars, valVars, screenVars, priceVars, payoffVars, rollVars>>

nonPriceVars == <<storeVars, spreadVars, rankVars, valVars, screenVars, riskVars, payoffVars, rollVars>>

nonPayoffVars == <<storeVars, spreadVars, rankVars, valVars, screenVars, riskVars, priceVars, rollVars>>

nonRollVars == <<storeVars, spreadVars, rankVars, valVars, screenVars, riskVars, priceVars, payoffVars>>

----------------------------------------------------------------------------
(* Bounds of the model *)

\* ids handed out by the store: 1..MaxPositions
MaxPositions == 2

\* premiums quoted: 1..MaxBid times 50 / 54 cents (bid / ask)
MaxBid == 2

\* opportunities in one call of rank_selling_opportunities: 0..MaxOpps
MaxOpps == 3

\* quotes in one call or put chain: 0..MaxChain
MaxChain == 2

\* max_results of get_top_opportunities: 1..MaxResults
MaxResults == 3

\* positions of a portfolio passed to analyze_portfolio_risk: 0..MaxPortfolio
MaxPortfolio == 2

\* Longest price array passed to _calculate_payoffs.
MaxPrices == 3

----------------------------------------------------------------------------
(* The position store                                                      *)

\* PortfolioStore.WHEEL_STATES: the keys of the dictionary
WHEEL_STATES == {"sell_put", "assigned", "sell_call", "called_away", "idle"}

\* the order the wheel is walked in, starting from idle
WheelCycle == <<"sell_put", "assigned", "sell_call", "called_away", "idle">>

\* strings a caller may pass as a wheel state: the vocabulary, the empty
\* string (no wheel tracking) and a string outside the vocabulary
StateArgs == WHEEL_STATES \cup {"", "rolled"}

PositionIds == 1..MaxPositions

\* the values a Greek of a stored position takes in the model
GreekValues == {0, 1}

\* a row as INSERTed by add_position: status and the Greeks take the
\* column defaults
NewRow(wheel_state) ==
    [status |-> "open", wheel_state |-> wheel_state, delta |-> 0]

\* UPDATE positions SET <field> = <value> WHERE id = <position_id>
UpdateWhereId(position_id, field, value) ==
    [p \in DOMAIN positions |->
        IF p = position_id
        THEN [positions[p] EXCEPT ![field] = value]
        ELSE positions[p]]

\* add_position: insert_ok is FALSE when the INSERT raises (a NOT NULL
\* column given None, symbol without .upper()); the method then returns
\* None.  wheel_state is stored as given.
add_position(insert_ok, wheel_state) ==
    /\ nextId <= MaxPositions
    /\ IF insert_ok
       THEN /\ positions' = [p \in DOMAIN positions \cup {nextId} |->
                                IF p = nextId THEN NewRow(wheel_state)
                                ELSE positions[p]]
            /\ nextId' = nextId + 1
            /\ ret' = TRUE
       ELSE /\ UNCHANGED <<positions, nextId>>
            /\ ret' = FALSE

\* close_position that also takes the position out of the wheel
close_position_resets(position_id) ==
    /\ positions' = [p \in DOMAIN positions |->
                        IF p = position_id
                        THEN [positions[p] EXCEPT !.status = "closed",
                                                  !.wheel_state = "idle"]
                        ELSE positions[p]]
    /\ ret' = TRUE
    /\ UNCHANGED nextId

\* close_position: UPDATE ... SET status = 'closed' WHERE id = ?
close_position(position_id) ==
    /\ positions' = UpdateWhereId(position_id, "status", "closed")
    /\ ret' = TRUE
    /\ UNCHANGED nextId

\* delete_position: DELETE FROM positions WHERE id = ?
delete_position(position_id) ==
    /\ positions' = [p \in DOMAIN positions \ {position_id} |-> positions[p]]
    /\ ret' = TRUE
    /\ UNCHANGED nextId

\* update_wheel_state with the membership test removed
update_wheel_state_unchecked(position_id, new_state) ==
    /\ positions' = UpdateWhereId(position_id, "wheel_state", new_state)
    /\ ret' = TRUE
    /\ UNCHANGED nextId

\* update_wheel_state that validates and reports success but writes nothing
update_wheel_state_nowrite(position_id, new_state) ==
    /\ ret' = (new_state \in WHEEL_STATES)
    /\ UNCHANGED <<positions, nextId>>

\* update_wheel_state
update_wheel_state(position_id, new_state) ==
    IF new_state \notin WHEEL_STATES
    THEN /\ ret' = FALSE
         /\ UNCHANGED <<positions, nextId>>
    ELSE /\ positions' = UpdateWhereId(position_id, "wheel_state", new_state)
         /\ ret' = TRUE
         /\ UNCHANGED nextId

\* get_positions, get_wheel_positions, get_portfolio_summary: SELECT
\* statements only; the rows returned are not kept by the store
select_positions ==
    UNCHANGED <<positions, nextId, ret>>

\* update_position_greeks: UPDATE ... SET delta = ?, ... WHERE id = ?
update_position_greeks(position_id, delta) ==
    /\ positions' = UpdateWhereId(position_id, "delta", delta)
    /\ ret' = TRUE
    /\ UNCHANGED nextId

----------------------------------------------------------------------------
(* Exact arithmetic for the code's floating-point expressions: a number is  *)
(* <<numerator, denominator>> in lowest terms with a positive denominator;  *)
(* float('inf') is <<1, 0>>.                                                *)

Abs(i) == IF i < 0 THEN -i ELSE i

RECURSIVE GCD(_, _)
GCD(a, b) == IF b = 0 THEN a ELSE GCD(b, a % b)

Norm(n, d) == LET g == GCD(Abs(n), d) IN <<n \div g, d \div g>>

R(i) == <<i, 1>>

Inf == <<1, 0>>

\* Sums go over the least common denominator and products cancel
\* crosswise first, so that intermediate values stay small.
RatAdd(a, b) ==
    LET g == GCD(a[2], b[2])
    IN  Norm(a[1] * (b[2] \div g) + b[1] * (a[2] \div g), (a[2] \div g) * b[2])

RatSub(a, b) == RatAdd(a, <<-b[1], b[2]>>)

RatMul(a, b) ==
    IF a[1] = 0 \/ b[1] = 0 THEN <<0, 1>>
    ELSE LET g1 == GCD(Abs(a[1]), b[2])
             g2 == GCD(Abs(b[1]), a[2])
         IN  Norm((a[1] \div g1) * (b[1] \div g2), (a[2] \div g2) * (b[2] \div g1))

\* a / b for b # 0 (the code's ZeroDivisionError cases are guarded where
\* they occur)
RatDiv(a, b) ==
    IF b[1] > 0 THEN RatMul(a, <<b[2], b[1]>>)
    ELSE RatMul(a, <<-b[2], -b[1]>>)

\* p / q < r / s for proper fractions 0 <= p < q and 0 <= r < s, by
\* comparing the continued fractions
RECURSIVE FracLt(_, _, _, _)
FracLt(p, q, r, s) ==
    IF r = 0 THEN FALSE
    ELSE IF p = 0 THEN TRUE
    ELSE IF s \div r # q \div p THEN s \div r < q \div p
    ELSE FracLt(s % r, r, q % p, p)

\* a < b; float('inf') is above every number
RatLt(a, b) ==
    IF a[2] = 0 THEN FALSE
    ELSE IF b[2] = 0 THEN TRUE
    ELSE IF a[1] \div a[2] # b[1] \div b[2] THEN a[1] \div a[2] < b[1] \div b[2]
    ELSE FracLt(a[1] % a[2], a[2], b[1] % b[2], b[2])

RatLe(a, b) == ~RatLt(b, a)

\* Python's min(a, b) and max(a, b)
RatMin(a, b) == IF RatLt(b, a) THEN b ELSE a

RatMax(a, b) == IF RatLt(a, b) THEN b ELSE a

RatAbs(a) == <<Abs(a[1]), a[2]>>

\* np.sqrt(days_to_expiry / 365), to two decimal places
SqrtYearFraction(days_to_expiry) ==
    LET n == (days_to_expiry * 10000) \div 365
        root == CHOOSE k \in 0..100 : k * k <= n /\ n < (k + 1) * (k + 1)
    IN Norm(root, 100)

----------------------------------------------------------------------------
(* Option quotes and the leg analysis (pricing.py)                         *)

\* the empty dict a function returns for "no opportunity"
Empty == <<>>

\* An option quote as the data collector hands it on.  delta and prob are
\* the Black-Scholes delta (in hundredths) and the short seller's profit
\* probability (in percent) that calculate_greeks and
\* prob_profit_short_option compute for the quote; the model does not
\* evaluate norm.cdf and takes any value of their range.  iv_pct is
\* impliedVolatility * 100; bid, ask and lastPrice are in cents.
Quote(type, has_strike, strike, bid, ask, lastPrice, volume, openInterest, iv_pct, delta, prob) ==
    [type |-> type, has_strike |-> has_strike, strike |-> strike,
     bid |-> bid, ask |-> ask, lastPrice |-> lastPrice,
     volume |-> volume, openInterest |-> openInterest,
     iv_pct |-> iv_pct, delta |-> delta, prob |-> prob]

\* mid_price = (bid + ask) / 2 if bid > 0 and ask > 0 else market_price
MidPrice(option_data) ==
    IF option_data.bid > 0 /\ option_data.ask > 0
    THEN RatDiv(R(option_data.bid + option_data.ask), R(200))
    ELSE RatDiv(R(option_data.lastPrice), R(100))

\* np.exp(-r * T) to four decimal places, for r in percent and T = days / 365
DiscountFactor(r_pct, days) ==
    LET x == (r_pct * days * 100) \div 365
    IN  Norm(10000 - x + (x * x) \div 20000, 10000)

\* norm.cdf of d1 or d2: calculate_d1_d2 returns (0, 0) if T <= 0 or
\* sigma <= 0, and norm.cdf(0) = 0.5; otherwise the value is given with the
\* arguments
NormCdf(days, sigma_pct, cdf_d) ==
    IF days <= 0 \/ sigma_pct <= 0 THEN <<1, 2>> ELSE cdf_d

\* max(S - K, 0) for a call, max(K - S, 0) for a put
IntrinsicValue(S, K, option_type) ==
    IF option_type = "call" THEN RatMax(R(S - K), R(0)) ELSE RatMax(R(K - S), R(0))

\* the Black-Scholes price from norm.cdf(d1) = n1 and norm.cdf(d2) = n2
\* (norm.cdf(-d) = 1 - norm.cdf(d)), floored at 0
BlackScholesPrice(S, K, discount, option_type, n1, n2) ==
    IF option_type = "call"
    THEN RatMax(RatSub(RatMul(R(S), n1), RatMul(RatMul(R(K), discount), n2)), R(0))
    ELSE RatMax(RatSub(RatMul(RatMul(R(K), discount), RatSub(R(1), n2)),
                       RatMul(R(S), RatSub(R(1), n1))), R(0))

\* BlackScholesCalculator.option_price for S, K > 0, T = days / 365,
\* r and sigma in percent; cdf_d1 and cdf_d2 are norm.cdf(d1) and
\* norm.cdf(d2) for these arguments
option_price(S, K, days, r_pct, sigma_pct, option_type, cdf_d1, cdf_d2) ==
    IF days <= 0 THEN IntrinsicValue(S, K, option_type)
    ELSE BlackScholesPrice(S, K, DiscountFactor(r_pct, days), option_type,
                           NormCdf(days, sigma_pct, cdf_d1),
                           NormCdf(days, sigma_pct, cdf_d2))

\* where the body of analyze_option raises: option_data['strike'] missing,
\* stock_price / strike (call) or strike / stock_price (put) with a zero
\* divisor, and (mid_price / strike) * (365 / days_to_expiry), evaluated
\* only when mid_price > 0
AnalyzeOptionRaises(option_data, stock_price, days_to_expiry) ==
    \/ ~option_data.has_strike
    \/ option_data.type = "call" /\ option_data.strike = 0
    \/ option_data.type # "call" /\ stock_price = 0
    \/ /\ RatLt(R(0), MidPrice(option_data))
       /\ option_data.strike = 0 \/ days_to_expiry = 0

\* the record analyze_option returns when nothing raised
OptionRecord(option_data, stock_price, days_to_expiry, strike, mid_price, bid, ask) ==
    [basic_info |->
        [strike |-> strike,
         type |-> option_data.type,
         days_to_expiry |-> days_to_expiry,
         mid_price |-> mid_price,
         implied_volatility |-> R(option_data.iv_pct)],
     pricing |->
        [intrinsic_value |-> IntrinsicValue(stock_price, strike, option_data.type),
         time_value |->
            RatSub(mid_price, IntrinsicValue(stock_price, strike, option_data.type)),
         moneyness |->
            IF option_data.type = "call" THEN Norm(stock_price, strike)
            ELSE Norm(strike, stock_price)],
     greeks |-> [delta |-> Norm(option_data.delta, 100)],
     probabilities |->
        [prob_profit_short |-> R(option_data.prob)],
     returns |->
        [max_profit |-> mid_price,
         max_loss |->
            IF option_data.type = "call" THEN Inf ELSE RatSub(R(strike), mid_price),
         breakeven |->
            IF option_data.type = "call" THEN RatAdd(R(strike), mid_price)
            ELSE RatSub(R(strike), mid_price),
         annualized_return |->
            IF RatLt(R(0), mid_price)
            THEN RatMul(RatMul(RatDiv(mid_price, R(strike)),
                               RatDiv(R(365), R(days_to_expiry))), R(100))
            ELSE R(0)],
     liquidity |->
        [bid_ask_spread |->
            IF ask > bid THEN RatDiv(R(ask - bid), R(100))
            ELSE R(0),
         bid_ask_spread_pct |->
            IF RatLt(R(0), mid_price)
            THEN RatMul(RatDiv(RatDiv(R(ask - bid), R(100)),
                               mid_price), R(100))
            ELSE R(0),
         volume |-> option_data.volume,
         open_interest |-> option_data.openInterest]]

\* analyze_option with a failure while the record is built leaving the
\* sections built so far
analyze_option_partial(option_data, stock_price, days_to_expiry) ==
    IF ~option_data.has_strike THEN Empty
    ELSE IF AnalyzeOptionRaises(option_data, stock_price, days_to_expiry)
    THEN [basic_info |-> [type |-> option_data.type,
                          days_to_expiry |-> days_to_expiry]]
    ELSE OptionRecord(option_data, stock_price, days_to_expiry,
                      option_data.strike, MidPrice(option_data),
                      option_data.bid, option_data.ask)

\* OptionAnalyzer.analyze_option.  The whole body is inside try / except
\* Exception, which returns {}.  The record leaves out the values no
\* other function reads and whose computation does not raise
\* (theoretical_price, the Greeks other than delta, prob_expire_worthless,
\* the expected move and the copies of the quote in basic_info).
analyze_option(option_data, stock_price, days_to_expiry) ==
    IF AnalyzeOptionRaises(option_data, stock_price, days_to_expiry) THEN Empty
    ELSE OptionRecord(option_data, stock_price, days_to_expiry,
                      option_data.strike, MidPrice(option_data),
                      option_data.bid, option_data.ask)

----------------------------------------------------------------------------
(* The vertical spreads (strategies.py)                                    *)

\* expected_move = stock_price * (current_iv / 100) * np.sqrt(dte / 365)
ExpectedMove(stock_price, current_iv, days_to_expiry) ==
    RatMul(RatMul(R(stock_price), RatDiv(current_iv, R(100))),
           SqrtYearFraction(days_to_expiry))

\* profit_prob = min(95, max(5, 50 + (distance / expected_move) * 30))
\* if expected_move > 0 else 50
SpreadProfitProb(distance, expected_move) ==
    IF RatLt(R(0), expected_move)
    THEN RatMin(R(95),
                RatMax(R(5),
                       RatAdd(R(50),
                              RatMul(RatDiv(distance, expected_move), R(30)))))
    ELSE R(50)

\* max_loss = spread_width + net_credit: the credit added, not deducted
SpreadMaxLossAdded(spread_width, net_credit) == RatAdd(spread_width, net_credit)

\* max_loss = spread_width - net_credit
SpreadMaxLoss(spread_width, net_credit) == RatSub(spread_width, net_credit)

\* the strike test of analyze_bull_put_spread with < for <=
BullPutStrikesRejectedStrict(short_strike, long_strike) ==
    short_strike < long_strike

\* if short_strike <= long_strike: return {}
BullPutStrikesRejected(short_strike, long_strike) ==
    short_strike <= long_strike

\* if long_strike <= short_strike: return {}
BearCallStrikesRejected(short_strike, long_strike) ==
    long_strike <= short_strike

\* the record both spread functions return; breakeven and distance differ
SpreadRecord(strategy_type, stock_price, short_analysis, short_strike, strikes, net_credit, spread_width, breakeven, distance, days_to_expiry) ==
    LET max_profit == net_credit
        max_loss == SpreadMaxLoss(spread_width, net_credit)
        return_on_risk ==
            IF RatLt(R(0), max_loss)
            THEN RatMul(RatDiv(max_profit, max_loss), R(100))
            ELSE R(0)
        annualized_yield ==
            IF RatLt(R(0), max_loss)
            THEN RatMul(return_on_risk, RatDiv(R(365), R(days_to_expiry)))
            ELSE R(0)
        current_iv == short_analysis.basic_info.implied_volatility
        expected_move == ExpectedMove(stock_price, current_iv, days_to_expiry)
        profit_prob == SpreadProfitProb(distance, expected_move)
    IN  [strategy_type |-> strategy_type,
         stock_price |-> stock_price,
         strike |-> short_strike,
         strikes |-> strikes,
         premium |-> RatDiv(net_credit, R(100)),
         returns |-> [net_credit |-> net_credit,
                      max_profit |-> max_profit,
                      max_loss |-> max_loss,
                      breakeven |-> breakeven,
                      return_on_risk |-> return_on_risk,
                      annualized_yield |-> annualized_yield,
                      spread_width |-> spread_width,
                      profit_probability |-> profit_prob],
         probabilities |-> [prob_profit_short |-> profit_prob],
         greeks |-> short_analysis.greeks,
         option_details |-> short_analysis,
         days_to_expiry |-> days_to_expiry]

\* the rest of analyze_bull_put_spread once the net credit is known;
\* 365 / days_to_expiry raises ZeroDivisionError when max_loss > 0
BullPutFromCredit(stock_price, short_strike, long_strike, short_analysis, net_credit, days_to_expiry) ==
    IF /\ RatLt(R(0), SpreadMaxLoss(R((short_strike - long_strike) * 100), net_credit))
       /\ days_to_expiry = 0
    THEN Empty
    ELSE SpreadRecord("bull_put_spread", stock_price, short_analysis, short_strike,
                      [put_short |-> short_strike, put_long |-> long_strike],
                      net_credit,
                      R((short_strike - long_strike) * 100),
                      RatSub(R(short_strike), RatDiv(net_credit, R(100))),
                      RatSub(R(stock_price),
                             RatSub(R(short_strike), RatDiv(net_credit, R(100)))),
                      days_to_expiry)

\* analyze_bull_put_spread after the two leg analyses
BullPutFromAnalyses(stock_price, short_strike, long_strike, short_analysis, long_analysis, days_to_expiry) ==
    IF short_analysis = Empty \/ long_analysis = Empty THEN Empty
    ELSE IF BullPutStrikesRejected(short_strike, long_strike) THEN Empty
    ELSE BullPutFromCredit(stock_price, short_strike, long_strike, short_analysis,
                           RatMul(RatSub(short_analysis.basic_info.mid_price,
                                         long_analysis.basic_info.mid_price), R(100)),
                           days_to_expiry)

\* analyze_bull_put_spread: short the higher-strike put, long the lower one
analyze_bull_put_spread(stock_price, put_short_data, put_long_data, days_to_expiry) ==
    BullPutFromAnalyses(stock_price, put_short_data.strike, put_long_data.strike,
                        analyze_option(put_short_data, stock_price, days_to_expiry),
                        analyze_option(put_long_data, stock_price, days_to_expiry),
                        days_to_expiry)

\* the rest of analyze_bear_call_spread once the net credit is known
BearCallFromCredit(stock_price, short_strike, long_strike, short_analysis, net_credit, days_to_expiry) ==
    IF /\ RatLt(R(0), SpreadMaxLoss(R((long_strike - short_strike) * 100), net_credit))
       /\ days_to_expiry = 0
    THEN Empty
    ELSE SpreadRecord("bear_call_spread", stock_price, short_analysis, short_strike,
                      [call_short |-> short_strike, call_long |-> long_strike],
                      net_credit,
                      R((long_strike - short_strike) * 100),
                      RatAdd(R(short_strike), RatDiv(net_credit, R(100))),
                      RatSub(RatAdd(R(short_strike), RatDiv(net_credit, R(100))),
                             R(stock_price)),
                      days_to_expiry)

\* analyze_bear_call_spread after the two leg analyses
BearCallFromAnalyses(stock_price, short_strike, long_strike, short_analysis, long_analysis, days_to_expiry) ==
    IF short_analysis = Empty \/ long_analysis = Empty THEN Empty
    ELSE IF BearCallStrikesRejected(short_strike, long_strike) THEN Empty
    ELSE BearCallFromCredit(stock_price, short_strike, long_strike, short_analysis,
                            RatMul(RatSub(short_analysis.basic_info.mid_price,
                                          long_analysis.basic_info.mid_price), R(100)),
                            days_to_expiry)

\* analyze_bear_call_spread: short the lower-strike call, long the higher one
analyze_bear_call_spread(stock_price, call_short_data, call_long_data, days_to_expiry) ==
    BearCallFromAnalyses(stock_price, call_short_data.strike, call_long_data.strike,
                         analyze_option(call_short_data, stock_price, days_to_expiry),
                         analyze_option(call_long_data, stock_price, days_to_expiry),
                         days_to_expiry)

----------------------------------------------------------------------------
(* The single-leg strategies and the strangle (strategies.py)              *)

\* The body of analyze_covered_call with shares_owned = 100, given the
\* option analysis; Empty where the code returns {}: no option analysis,
\* or 365 / days_to_expiry with days_to_expiry = 0
CoveredCallRecord(stock_price, strike, option_analysis, days_to_expiry) ==
    IF option_analysis = Empty THEN Empty
    ELSE IF stock_price > 0 /\ days_to_expiry = 0 THEN Empty
    ELSE
        LET premium == option_analysis.basic_info.mid_price
            gain == RatAdd(R(strike - stock_price), premium)
            yield_if_called ==
                IF stock_price > 0
                THEN RatMul(RatDiv(gain, R(stock_price)), R(100))
                ELSE R(0)
            yield_if_unchanged ==
                IF stock_price > 0
                THEN RatMul(RatDiv(premium, R(stock_price)), R(100))
                ELSE R(0)
        IN  [strategy_type |-> "covered_call",
             stock_price |-> stock_price,
             strike |-> strike,
             premium |-> premium,
             shares |-> 100,
             returns |->
                [max_profit |-> RatMul(gain, R(100)),
                 max_loss |-> R(stock_price * 100),
                 breakeven |-> RatSub(R(stock_price), premium),
                 yield_if_unchanged |-> yield_if_unchanged,
                 yield_if_called |-> yield_if_called,
                 annualized_yield |->
                    IF stock_price > 0
                    THEN RatMul(yield_if_called, RatDiv(R(365), R(days_to_expiry)))
                    ELSE R(0),
                 downside_protection |-> yield_if_unchanged],
             probabilities |-> option_analysis.probabilities,
             greeks |-> option_analysis.greeks,
             option_details |-> option_analysis]

analyze_covered_call(stock_price, call_data, days_to_expiry) ==
    CoveredCallRecord(stock_price, call_data.strike,
                      analyze_option(call_data, stock_price, days_to_expiry),
                      days_to_expiry)

\* the body of analyze_cash_secured_put (one contract), given the option
\* analysis
CashSecuredPutRecord(stock_price, strike, option_analysis, days_to_expiry) ==
    IF option_analysis = Empty THEN Empty
    ELSE IF strike > 0 /\ days_to_expiry = 0 THEN Empty
    ELSE
        LET premium == option_analysis.basic_info.mid_price
            cash_required == strike * 100
            yield_on_cash ==
                IF cash_required > 0
                THEN RatMul(RatDiv(RatMul(premium, R(100)), R(cash_required)), R(100))
                ELSE R(0)
            net_cost_if_assigned == RatSub(R(strike), premium)
        IN  [strategy_type |-> "cash_secured_put",
             stock_price |-> stock_price,
             strike |-> strike,
             premium |-> premium,
             cash_required |-> cash_required,
             returns |->
                [max_profit |-> RatMul(premium, R(100)),
                 max_loss |-> RatMul(RatSub(R(strike), premium), R(100)),
                 breakeven |-> RatSub(R(strike), premium),
                 yield_on_cash |-> yield_on_cash,
                 annualized_yield |->
                    IF cash_required > 0
                    THEN RatMul(yield_on_cash, RatDiv(R(365), R(days_to_expiry)))
                    ELSE R(0),
                 net_cost_if_assigned |-> net_cost_if_assigned,
                 discount_to_current |->
                    IF stock_price > 0
                    THEN RatMul(RatDiv(RatSub(R(stock_price), net_cost_if_assigned),
                                       R(stock_price)), R(100))
                    ELSE R(0)],
             probabilities |-> option_analysis.probabilities,
             greeks |-> option_analysis.greeks,
             option_details |-> option_analysis]

analyze_cash_secured_put(stock_price, put_data, days_to_expiry) ==
    CashSecuredPutRecord(stock_price, put_data.strike,
                         analyze_option(put_data, stock_price, days_to_expiry),
                         days_to_expiry)

\* profit_prob of the strangle: min(100, zone / (2 * move) * 100), or 50
\* when the expected move is not positive
StrangleProfitProb(profit_zone_width, expected_move) ==
    IF RatLt(R(0), expected_move)
    THEN RatMin(R(100), RatMul(RatDiv(profit_zone_width,
                                      RatMul(R(2), expected_move)), R(100)))
    ELSE R(50)

\* the weaker leg bounds what can be traded
Min(a, b) == IF a <= b THEN a ELSE b

\* the body of analyze_short_strangle, given the two leg analyses
StrangleRecord(stock_price, call_strike, put_strike, call_analysis, put_analysis, days_to_expiry) ==
    IF call_analysis = Empty \/ put_analysis = Empty THEN Empty
    ELSE
        LET combined_mid == RatAdd(call_analysis.basic_info.mid_price,
                                   put_analysis.basic_info.mid_price)
            net_credit == RatMul(combined_mid, R(100))
            upper_breakeven == RatAdd(R(call_strike), RatDiv(net_credit, R(100)))
            lower_breakeven == RatSub(R(put_strike), RatDiv(net_credit, R(100)))
            profit_zone_width == RatSub(upper_breakeven, lower_breakeven)
            current_iv == RatDiv(RatAdd(call_analysis.basic_info.implied_volatility,
                                        put_analysis.basic_info.implied_volatility),
                                 R(2))
            expected_move == ExpectedMove(stock_price, current_iv, days_to_expiry)
            profit_prob == StrangleProfitProb(profit_zone_width, expected_move)
            combined_spread == RatAdd(call_analysis.liquidity.bid_ask_spread,
                                      put_analysis.liquidity.bid_ask_spread)
        IN  [strategy_type |-> "short_strangle",
             stock_price |-> stock_price,
             strike |-> put_strike,
             strikes |-> [put_strike |-> put_strike, call_strike |-> call_strike],
             returns |->
                [net_credit |-> net_credit,
                 max_profit |-> net_credit,
                 max_loss |-> Inf,
                 upper_breakeven |-> upper_breakeven,
                 lower_breakeven |-> lower_breakeven,
                 profit_zone_width |-> profit_zone_width,
                 profit_probability |-> profit_prob,
                 annualized_yield |->
                    IF stock_price > 0 /\ days_to_expiry > 0
                    THEN RatMul(RatMul(RatDiv(net_credit, R(stock_price * 100)),
                                       RatDiv(R(365), R(days_to_expiry))), R(100))
                    ELSE R(0)],
             probabilities |-> [prob_profit_short |-> profit_prob],
             greeks |-> [delta |-> RatAdd(call_analysis.greeks.delta,
                                          put_analysis.greeks.delta)],
             option_details |->
                [basic_info |-> [implied_volatility |-> current_iv,
                                 put_strike |-> put_strike,
                                 call_strike |-> call_strike],
                 liquidity |->
                    [bid_ask_spread |-> combined_spread,
                     bid_ask_spread_pct |->
                        IF RatLt(R(0), combined_mid)
                        THEN RatMul(RatDiv(combined_spread, combined_mid), R(100))
                        ELSE R(0),
                     volume |-> Min(call_analysis.liquidity.volume,
                                    put_analysis.liquidity.volume),
                     open_interest |-> Min(call_analysis.liquidity.open_interest,
                                           put_analysis.liquidity.open_interest)]],
             days_to_expiry |-> days_to_expiry]

analyze_short_strangle(stock_price, call_data, put_data, days_to_expiry) ==
    StrangleRecord(stock_price, call_data.strike, put_data.strike,
                   analyze_option(call_data, stock_price, days_to_expiry),
                   analyze_option(put_data, stock_price, days_to_expiry),
                   days_to_expiry)

----------------------------------------------------------------------------
(* Ranking (strategies.py, rank_selling_opportunities)                     *)

\* dict.get(key, default)
Get(rec, key, default) == IF key \in DOMAIN rec THEN rec[key] ELSE default

\* the dict with rec's items and rec[key] = val
With(rec, key, val) ==
    [k \in DOMAIN rec \cup {key} |-> IF k = key THEN val ELSE rec[k]]

\* annualized-return points without the cap of 30
ReturnPointsUncapped(returns) ==
    LET annualized_return == Get(returns, "annualized_yield", R(0))
    IN  IF RatLt(R(0), annualized_return)
        THEN RatMul(annualized_return, R(2))
        ELSE R(0)

\* annualized-return points: min(30, annualized_return * 2) if it is > 0
ReturnPoints(returns) ==
    LET annualized_return == Get(returns, "annualized_yield", R(0))
    IN  IF RatLt(R(0), annualized_return)
        THEN RatMin(R(30), RatMul(annualized_return, R(2)))
        ELSE R(0)

\* profit-probability points: min(25, prob_profit * 0.25)
ProbabilityPoints(opp) ==
    IF "probabilities" \in DOMAIN opp
    THEN RatMin(R(25), RatMul(Get(opp.probabilities, "prob_profit_short", R(0)), <<1, 4>>))
    ELSE R(0)

\* liquidity points: volume / open-interest tier plus spread tier
LiquidityPoints(opp) ==
    IF "option_details" \in DOMAIN opp /\ "liquidity" \in DOMAIN opp.option_details
    THEN LET liquidity == opp.option_details.liquidity
             volume == Get(liquidity, "volume", 0)
             open_interest == Get(liquidity, "open_interest", 0)
             bid_ask_spread_pct == Get(liquidity, "bid_ask_spread_pct", R(100))
         IN  (IF volume >= 100 /\ open_interest >= 500 THEN 10
              ELSE IF volume >= 50 /\ open_interest >= 200 THEN 5
              ELSE 0)
             + (IF RatLt(bid_ask_spread_pct, R(5)) THEN 10
                ELSE IF RatLt(bid_ask_spread_pct, R(10)) THEN 5
                ELSE 0)
    ELSE 0

\* risk / reward points: min(15, max_profit / max_loss * 30) when max_loss
\* is finite and positive
RiskRewardPoints(returns) ==
    LET max_loss == Get(returns, "max_loss", Inf)
        max_profit == Get(returns, "max_profit", R(0))
    IN  IF max_loss # Inf /\ RatLt(R(0), max_loss)
        THEN RatMin(R(15), RatMul(RatDiv(max_profit, max_loss), R(30)))
        ELSE R(0)

\* delta points: 10 for |delta| in [0.15, 0.35], 5 for [0.1, 0.5]
DeltaPoints(opp) ==
    IF "greeks" \in DOMAIN opp
    THEN LET delta == RatAbs(Get(opp.greeks, "delta", R(0)))
         IN  IF RatLe(<<3, 20>>, delta) /\ RatLe(delta, <<7, 20>>) THEN 10
             ELSE IF RatLe(<<1, 10>>, delta) /\ RatLe(delta, <<1, 2>>) THEN 5
             ELSE 0
    ELSE 0

\* the score rank_selling_opportunities gives one opportunity
OpportunityScore(opp) ==
    IF "returns" \in DOMAIN opp
    THEN RatAdd(RatAdd(RatAdd(RatAdd(ReturnPoints(opp.returns),
                                     ProbabilityPoints(opp)),
                              R(LiquidityPoints(opp))),
                       RiskRewardPoints(opp.returns)),
                R(DeltaPoints(opp)))
    ELSE R(0)

\* an insertion that places x before an element of equal score
RECURSIVE InsertByScoreBeforeEqual(_, _)
InsertByScoreBeforeEqual(sorted, x) ==
    IF sorted = <<>> THEN <<x>>
    ELSE IF RatLe(Head(sorted).score, x.score) THEN <<x>> \o sorted
    ELSE <<Head(sorted)>> \o InsertByScoreBeforeEqual(Tail(sorted), x)

\* list.sort(key = score, reverse = True) is stable: an element goes
\* behind every element of greater or equal score placed before it
RECURSIVE InsertByScore(_, _)
InsertByScore(sorted, x) ==
    IF sorted = <<>> THEN <<x>>
    ELSE IF RatLt(Head(sorted).score, x.score) THEN <<x>> \o sorted
    ELSE <<Head(sorted)>> \o InsertByScore(Tail(sorted), x)

RECURSIVE SortPrefixByScore(_, _)
SortPrefixByScore(seq, n) ==
    IF n = 0 THEN <<>>
    ELSE InsertByScore(SortPrefixByScore(seq, n - 1), seq[n])

SortByScoreDesc(seq) == SortPrefixByScore(seq, Len(seq))

\* rank_selling_opportunities: a copy of every opportunity with its score,
\* sorted by score, highest first.  (The except branch, which returns the
\* argument, is not reachable with numeric fields.)
rank_selling_opportunities(opportunities) ==
    SortByScoreDesc([i \in 1..Len(opportunities) |->
        With(opportunities[i], "score", OpportunityScore(opportunities[i]))])

----------------------------------------------------------------------------
(* Screening configuration and validators (screener.py)                    *)

\* OptionsScreener._default_config
DefaultConfig ==
    [min_days_to_expiry |-> 7, max_days_to_expiry |-> 60,
     min_open_interest |-> 100, min_volume |-> 50,
     min_delta |-> <<1, 10>>, max_delta |-> <<1, 2>>,
     min_iv_rank |-> 20,
     min_bid_ask_spread_pct |-> R(0), max_bid_ask_spread_pct |-> R(15),
     min_annualized_return |-> R(0), min_profit_probability |-> R(0),
     min_stock_price |-> 10, max_stock_price |-> 500,
     target_strategies |-> <<"covered_call", "cash_secured_put", "short_strangle",
                             "bull_put_spread", "bear_call_spread">>,
     max_results_per_symbol |-> 5,
     spread_width_min |-> 2, spread_width_max |-> 10]

\* OptionsScreener.__init__: self.config = config or self._default_config();
\* None and {} are both written Empty
OptionsScreener(config) == IF config = Empty THEN DefaultConfig ELSE config

\* a dict without one of its keys
Without(rec, key) == [k \in DOMAIN rec \ {key} |-> rec[k]]

\* dict.update: config with the items of updates written over it
Override(config, updates) ==
    [k \in DOMAIN config \cup DOMAIN updates |->
        IF k \in DOMAIN updates THEN updates[k] ELSE config[k]]

\* the fields the single-leg validators read, absent ones defaulting to 0
LegDelta(strategy_analysis) ==
    RatAbs(Get(Get(strategy_analysis, "greeks", Empty), "delta", R(0)))

LegAnnualizedYield(strategy_analysis) ==
    Get(Get(strategy_analysis, "returns", Empty), "annualized_yield", R(0))

LegProbProfit(strategy_analysis) ==
    Get(Get(strategy_analysis, "probabilities", Empty), "prob_profit_short", R(0))

\* _validate_covered_call with the profit-probability test left out
_validate_covered_call_noprob(config, strategy_analysis) ==
    IF ~({"min_delta", "max_delta"} \subseteq DOMAIN config) THEN FALSE
    ELSE IF ~(/\ RatLe(config.min_delta, LegDelta(strategy_analysis))
              /\ RatLe(LegDelta(strategy_analysis), config.max_delta)) THEN FALSE
    ELSE IF RatLt(LegAnnualizedYield(strategy_analysis),
                  Get(config, "min_annualized_return", R(0))) THEN FALSE
    ELSE TRUE

\* _validate_covered_call; config['min_delta'] / config['max_delta'] raise
\* KeyError on a config without them, which the except turns into False
_validate_covered_call(config, strategy_analysis) ==
    IF ~({"min_delta", "max_delta"} \subseteq DOMAIN config) THEN FALSE
    ELSE IF ~(/\ RatLe(config.min_delta, LegDelta(strategy_analysis))
              /\ RatLe(LegDelta(strategy_analysis), config.max_delta)) THEN FALSE
    ELSE IF RatLt(LegAnnualizedYield(strategy_analysis),
                  Get(config, "min_annualized_return", R(0))) THEN FALSE
    ELSE IF RatLt(LegProbProfit(strategy_analysis),
                  Get(config, "min_profit_probability", R(0))) THEN FALSE
    ELSE TRUE

\* _validate_cash_secured_put: the same three tests
_validate_cash_secured_put(config, strategy_analysis) ==
    IF ~({"min_delta", "max_delta"} \subseteq DOMAIN config) THEN FALSE
    ELSE IF ~(/\ RatLe(config.min_delta, LegDelta(strategy_analysis))
              /\ RatLe(LegDelta(strategy_analysis), config.max_delta)) THEN FALSE
    ELSE IF RatLt(LegAnnualizedYield(strategy_analysis),
                  Get(config, "min_annualized_return", R(0))) THEN FALSE
    ELSE IF RatLt(LegProbProfit(strategy_analysis),
                  Get(config, "min_profit_probability", R(0))) THEN FALSE
    ELSE TRUE

\* _validate_short_strangle; min_profit_probability defaults to 30 here
_validate_short_strangle(config, strategy_analysis) ==
    LET returns == Get(strategy_analysis, "returns", Empty)
        profit_prob == Get(returns, "profit_probability", R(0))
        net_credit == Get(returns, "net_credit", R(0))
        annualized_yield == Get(returns, "annualized_yield", R(0))
    IN  IF \/ RatLt(profit_prob, Get(config, "min_profit_probability", R(30)))
           \/ RatLe(net_credit, R(0)) THEN FALSE
        ELSE IF RatLt(annualized_yield,
                      Get(config, "min_annualized_return", R(0))) THEN FALSE
        ELSE TRUE

----------------------------------------------------------------------------
(* The screens (screener.py).  The market is what                          *)
(* data_manager.get_trading_opportunities returns: per symbol the stock    *)
(* data and a list of expiry records with their call and put chains.       *)
(* Dates are day numbers counted from today, so an expiry's date is its    *)
(* days_to_expiry.                                                         *)

\* the concatenation of a sequence of sequences
RECURSIVE Flatten(_)
Flatten(seqs) ==
    IF Len(seqs) = 0 THEN <<>> ELSE Head(seqs) \o Flatten(Tail(seqs))

\* seq[:n]
Take(seq, n) == SubSeq(seq, 1, Min(Len(seq), n))

\* where a subscript of self.config raises KeyError: config['min_...'] is
\* read first, config['max_...'] only if the first comparison holds
StockPriceRaises(config, price) ==
    \/ "min_stock_price" \notin DOMAIN config
    \/ config.min_stock_price <= price /\ "max_stock_price" \notin DOMAIN config

ExpiryRaises(config, days_to_expiry) ==
    \/ "min_days_to_expiry" \notin DOMAIN config
    \/ /\ config.min_days_to_expiry <= days_to_expiry
       /\ "max_days_to_expiry" \notin DOMAIN config

\* config['min_volume'], then config['min_open_interest'] if the volume
\* suffices, then config['max_bid_ask_spread_pct'] if both suffice and the
\* quote has a bid below its ask
LiquidityRaises(config, option_data) ==
    \/ "min_volume" \notin DOMAIN config
    \/ /\ option_data.volume >= config.min_volume
       /\ \/ "min_open_interest" \notin DOMAIN config
          \/ /\ option_data.openInterest >= config.min_open_interest
             /\ option_data.bid > 0
             /\ option_data.ask > option_data.bid
             /\ "max_bid_ask_spread_pct" \notin DOMAIN config

_validate_stock_price(config, price) ==
    config.min_stock_price <= price /\ price <= config.max_stock_price

_validate_expiry(config, days_to_expiry) ==
    /\ config.min_days_to_expiry <= days_to_expiry
    /\ days_to_expiry <= config.max_days_to_expiry

\* _validate_option_liquidity: volume and open interest floors, then the
\* bid / ask spread as a percentage of the mid price
_validate_option_liquidity(config, option_data) ==
    LET bid == option_data.bid
        ask == option_data.ask
    IN  IF \/ option_data.volume < config.min_volume
           \/ option_data.openInterest < config.min_open_interest THEN FALSE
        ELSE IF bid > 0 /\ ask > bid
        THEN ~RatLt(config.max_bid_ask_spread_pct,
                    RatMul(RatDiv(R(ask - bid), RatDiv(R(bid + ask), R(2))), R(100)))
        ELSE TRUE

\* ScreeningUtils.is_earnings_week: the expiry is within 7 days of the next
\* known earnings date
is_earnings_week(target_date, stock_data) ==
    IF ~stock_data.has_earnings THEN FALSE
    ELSE Abs(target_date - stock_data.next_earnings_date) <= 7

\* what one expiry record contributes: the opportunities appended, or an
\* exception that leaves the symbol's try block
NoOpps == [raised |-> FALSE, opps |-> <<>>]

Raised == [raised |-> TRUE, opps |-> <<>>]

\* the fields a screen writes on an accepted analysis
Tagged(analyses, fields) ==
    [i \in 1..Len(analyses) |-> Override(analyses[i], fields)]

\* the end of a symbol's try block: nothing on an exception (one is the
\* KeyError of config['max_results_per_symbol']), else the ranked
\* opportunities cut to max_results_per_symbol
SymbolResult(config, raised, symbol_opportunities) ==
    IF raised \/ symbol_opportunities = <<>> THEN <<>>
    ELSE IF "max_results_per_symbol" \notin DOMAIN config THEN <<>>
    ELSE Take(rank_selling_opportunities(symbol_opportunities),
              config.max_results_per_symbol)

\* one expiry record of screen_covered_calls / screen_cash_secured_puts
ExpirySingleLeg(config, sym, opp, strategy) ==
    IF ExpiryRaises(config, opp.days_to_expiry) THEN Raised
    ELSE IF ~_validate_expiry(config, opp.days_to_expiry) THEN NoOpps
    ELSE IF ~opp.expiry_date_parses THEN Raised
    ELSE
    LET earnings_risk == is_earnings_week(opp.expiry_date, sym)
        chain == IF strategy = "covered_call" THEN opp.calls ELSE opp.puts
        analyses ==
            [i \in 1..Len(chain) |->
                IF ~_validate_option_liquidity(config, chain[i]) THEN Empty
                ELSE IF strategy = "covered_call"
                THEN analyze_covered_call(sym.stock_price, chain[i], opp.days_to_expiry)
                ELSE analyze_cash_secured_put(sym.stock_price, chain[i], opp.days_to_expiry)]
        accepted ==
            SelectSeq(analyses, LAMBDA a :
                /\ a # Empty
                /\ IF strategy = "covered_call"
                   THEN _validate_covered_call(config, a)
                   ELSE _validate_cash_secured_put(config, a))
    IN  IF earnings_risk /\ Get(config, "avoid_earnings", FALSE) THEN NoOpps
        ELSE IF \E i \in 1..Len(chain) : LiquidityRaises(config, chain[i]) THEN Raised
        ELSE [raised |-> FALSE,
              opps |-> Tagged(accepted,
                              [symbol |-> sym.symbol,
                               expiry_date |-> opp.expiry_date,
                               days_to_expiry |-> opp.days_to_expiry,
                               earnings_risk |-> earnings_risk])]

\* the (i, j) index pairs of an n x m grid, row by row
GridPairs(n, m) ==
    [k \in 1..(n * m) |-> <<((k - 1) \div m) + 1, ((k - 1) % m) + 1>>]

\* the strangle condition on one (call, put) pair; call_data['strike'] and
\* put_data['strike'] raise KeyError on a quote without a strike
StranglePairRaises(config, stock_price, call_data, put_data) ==
    \/ LiquidityRaises(config, call_data)
    \/ /\ _validate_option_liquidity(config, call_data)
       /\ \/ LiquidityRaises(config, put_data)
          \/ /\ _validate_option_liquidity(config, put_data)
             /\ \/ ~call_data.has_strike
                \/ call_data.strike > stock_price /\ ~put_data.has_strike

StranglePairTaken(config, stock_price, call_data, put_data) ==
    /\ _validate_option_liquidity(config, call_data)
    /\ _validate_option_liquidity(config, put_data)
    /\ call_data.strike > stock_price
    /\ put_data.strike < stock_price

\* one expiry record of screen_short_strangles (no date parsing, no
\* earnings test in this screen)
ExpiryStrangles(config, sym, opp) ==
    IF ExpiryRaises(config, opp.days_to_expiry) THEN Raised
    ELSE IF ~_validate_expiry(config, opp.days_to_expiry) THEN NoOpps
    ELSE
    LET pairs == GridPairs(Len(opp.calls), Len(opp.puts))
        analyses ==
            [k \in 1..Len(pairs) |->
                LET call_data == opp.calls[pairs[k][1]]
                    put_data == opp.puts[pairs[k][2]]
                IN  IF StranglePairTaken(config, sym.stock_price, call_data, put_data)
                    THEN analyze_short_strangle(sym.stock_price, call_data,
                                                put_data, opp.days_to_expiry)
                    ELSE Empty]
        accepted ==
            SelectSeq(analyses, LAMBDA a :
                a # Empty /\ _validate_short_strangle(config, a))
    IN  IF \E k \in 1..Len(pairs) :
              StranglePairRaises(config, sym.stock_price,
                                 opp.calls[pairs[k][1]], opp.puts[pairs[k][2]])
        THEN Raised
        ELSE [raised |-> FALSE,
              opps |-> Tagged(accepted,
                              [symbol |-> sym.symbol,
                               expiry_date |-> opp.expiry_date,
                               days_to_expiry |-> opp.days_to_expiry])]

\* _deduplicate_strangles: the first opportunity of every strike pair
RECURSIVE _deduplicate_strangles(_)
_deduplicate_strangles(opportunities) ==
    IF Len(opportunities) = 0 THEN <<>>
    ELSE LET n == Len(opportunities)
             front == _deduplicate_strangles(SubSeq(opportunities, 1, n - 1))
             last == opportunities[n]
         IN  IF \E i \in 1..Len(front) : front[i].strikes = last.strikes
             THEN front
             ELSE Append(front, last)

\* the index pairs (i, j) with i < j of a list of n quotes, in loop order
SpreadPairs(n) == SelectSeq(GridPairs(n, n), LAMBDA ij : ij[1] < ij[2])

\* the liquid quotes on the out-of-the-money side of the chain
SpreadLegs(config, stock_price, chain, bull) ==
    SelectSeq(chain, LAMBDA q :
        /\ _validate_option_liquidity(config, q)
        /\ IF bull THEN q.strike < stock_price ELSE q.strike > stock_price)

\* one (short leg, long leg) pair of a spread screen: the width test, then
\* the analysis
SpreadPairAnalysis(config, stock_price, short, long, days_to_expiry, bull) ==
    IF /\ Get(config, "spread_width_min", 2)
             <= (IF bull THEN short.strike - long.strike ELSE long.strike - short.strike)
       /\ (IF bull THEN short.strike - long.strike ELSE long.strike - short.strike)
             <= Get(config, "spread_width_max", 10)
    THEN IF bull
         THEN analyze_bull_put_spread(stock_price, short, long, days_to_expiry)
         ELSE analyze_bear_call_spread(stock_price, short, long, days_to_expiry)
    ELSE Empty

\* the pairs (quotes[i], quotes[j]) with i < j as (short leg, long leg);
\* those analysed with a positive net credit are kept
SpreadsOfLegs(config, stock_price, quotes, pairs, days_to_expiry, bull) ==
    SelectSeq([k \in 1..Len(pairs) |->
                  SpreadPairAnalysis(config, stock_price, quotes[pairs[k][1]],
                                     quotes[pairs[k][2]], days_to_expiry, bull)],
              LAMBDA a : a # Empty /\ RatLt(R(0), a.returns.net_credit))

\* the spreads of one chain
SpreadsOfChain(config, stock_price, quotes, days_to_expiry, bull) ==
    SpreadsOfLegs(config, stock_price, quotes, SpreadPairs(Len(quotes)),
                  days_to_expiry, bull)

\* p['strike'] raises KeyError on a liquid quote without a strike
ChainRaises(config, chain) ==
    \E i \in 1..Len(chain) :
        \/ LiquidityRaises(config, chain[i])
        \/ _validate_option_liquidity(config, chain[i]) /\ ~chain[i].has_strike

\* one expiry record of a spread screen whose date parsed
ExpirySpreadsOf(config, sym, opp, chain, earnings_risk, bull) ==
    IF earnings_risk /\ Get(config, "avoid_earnings", FALSE) THEN NoOpps
    ELSE IF ChainRaises(config, chain) THEN Raised
    ELSE [raised |-> FALSE,
          opps |-> Tagged(SpreadsOfChain(config, sym.stock_price,
                                         SpreadLegs(config, sym.stock_price, chain, bull),
                                         opp.days_to_expiry, bull),
                          [symbol |-> sym.symbol,
                           expiry_date |-> opp.expiry_date,
                           days_to_expiry |-> opp.days_to_expiry,
                           earnings_risk |-> earnings_risk])]

\* one expiry record of screen_bull_put_spreads / screen_bear_call_spreads
ExpirySpreads(config, sym, opp, strategy) ==
    IF ExpiryRaises(config, opp.days_to_expiry) THEN Raised
    ELSE IF ~_validate_expiry(config, opp.days_to_expiry) THEN NoOpps
    ELSE IF ~opp.expiry_date_parses THEN Raised
    ELSE ExpirySpreadsOf(config, sym, opp,
                         IF strategy = "bull_put_spread" THEN opp.puts ELSE opp.calls,
                         is_earnings_week(opp.expiry_date, sym),
                         strategy = "bull_put_spread")

\* what the expiry records of a symbol leave in symbol_opportunities
\* (strangles of the same strikes once), from the results per record
Collected(results, strategy) ==
    IF strategy = "short_strangle"
    THEN _deduplicate_strangles(Flatten([k \in 1..Len(results) |-> results[k].opps]))
    ELSE Flatten([k \in 1..Len(results) |-> results[k].opps])

\* the expiry records of a symbol, one after the other
ExpiryResults(config, sym, strategy) ==
    [k \in 1..Len(sym.opportunities) |->
        IF strategy \in {"covered_call", "cash_secured_put"}
        THEN ExpirySingleLeg(config, sym, sym.opportunities[k], strategy)
        ELSE IF strategy = "short_strangle"
        THEN ExpiryStrangles(config, sym, sym.opportunities[k])
        ELSE ExpirySpreads(config, sym, sym.opportunities[k], strategy)]

SymbolOutcome(config, results, strategy) ==
    SymbolResult(config, \E k \in 1..Len(results) : results[k].raised,
                 Collected(results, strategy))

\* one symbol of a screen: the stock price test, then every expiry record
ScreenSymbol(config, sym, strategy) ==
    IF StockPriceRaises(config, sym.stock_price) THEN <<>>
    ELSE IF ~_validate_stock_price(config, sym.stock_price) THEN <<>>
    ELSE SymbolOutcome(config, ExpiryResults(config, sym, strategy), strategy)

\* a screen_* method: the symbols one after the other
ScreenSymbols(config, symbols, strategy) ==
    Flatten([s \in 1..Len(symbols) |-> ScreenSymbol(config, symbols[s], strategy)])

screen_covered_calls(config, symbols) == ScreenSymbols(config, symbols, "covered_call")

screen_cash_secured_puts(config, symbols) == ScreenSymbols(config, symbols, "cash_secured_put")

screen_short_strangles(config, symbols) == ScreenSymbols(config, symbols, "short_strangle")

screen_bull_put_spreads(config, symbols) == ScreenSymbols(config, symbols, "bull_put_spread")

screen_bear_call_spreads(config, symbols) == ScreenSymbols(config, symbols, "bear_call_spread")

\* the result keys of screen_all_strategies, in the order it fills them
StrategyCategories ==
    <<[strategy |-> "covered_call", category |-> "covered_calls"],
      [strategy |-> "cash_secured_put", category |-> "cash_secured_puts"],
      [strategy |-> "short_strangle", category |-> "short_strangles"],
      [strategy |-> "bull_put_spread", category |-> "bull_put_spreads"],
      [strategy |-> "bear_call_spread", category |-> "bear_call_spreads"]>>

\* one entry of screen_all_strategies: absent (empty here) unless the
\* strategy is among config['target_strategies']
CategoryOpportunities(config, symbols, c) ==
    IF \E t \in 1..Len(config.target_strategies) :
           config.target_strategies[t] = StrategyCategories[c].strategy
    THEN ScreenSymbols(config, symbols, StrategyCategories[c].strategy)
    ELSE <<>>

\* screen_all_strategies reads config['target_strategies'] outside any try
\* block: on a config without the key the KeyError leaves
\* get_top_opportunities
GetTopRaises(config) == "target_strategies" \notin DOMAIN config

\* get_top_opportunities: merge the categories, sort by score, cut
get_top_opportunities(config, symbols, max_results) ==
    LET all_opportunities ==
            Flatten([c \in 1..Len(StrategyCategories) |->
                Tagged(CategoryOpportunities(config, symbols, c),
                       [strategy_category |-> StrategyCategories[c].category])])
    IN  Take(SortByScoreDesc(all_opportunities), max_results)

----------------------------------------------------------------------------
(* Risk management (risk_manager.py).  The five risk levels, which the     *)
(* code names in Chinese, are written low_risk, medium_risk, high_risk,    *)
(* extreme_risk and unknown_risk.  stock_price, strike and the capitals    *)
(* are whole dollars; every other amount is a rational.                    *)

\* int(x): the integer part of a float, rounding toward zero
TruncInt(x) == IF x[1] >= 0 THEN x[1] \div x[2] ELSE -((-x[1]) \div x[2])

Min3(a, b, c) == Min(Min(a, b), c)

\* RiskCalculator._calculate_margin_requirement
_calculate_margin_requirement(strategy_analysis, position_size) ==
    LET strategy_type == Get(strategy_analysis, "strategy_type", "")
        stock_price == Get(strategy_analysis, "stock_price", 0)
        strikes == Get(strategy_analysis, "strikes", Empty)
    IN  CASE strategy_type = "covered_call" ->
                R(stock_price * 100 * position_size)
          [] strategy_type = "cash_secured_put" ->
                R(Get(strategy_analysis, "strike", 0) * 100 * position_size)
          [] strategy_type = "short_strangle" ->
                RatMul(RatMax(R(Get(strikes, "put_strike", 0) * 20),
                              R(stock_price * 20)),
                       R(position_size))
          [] strategy_type = "iron_condor" ->
                R(Get(strategy_analysis, "wing_width", 5) * 100 * position_size)
          [] OTHER -> R(stock_price * 20 * position_size)

\* the substitution with the covered-call proxy for every unbounded strategy
PositionMaxLossOneProxy(strategy_analysis, position_size) ==
    LET strategy_type == Get(strategy_analysis, "strategy_type", "")
        max_loss == Get(Get(strategy_analysis, "returns", Empty), "max_loss", Inf)
        stock_price == Get(strategy_analysis, "stock_price", 0)
    IN  IF max_loss = Inf
        THEN IF strategy_type \in {"covered_call", "short_strangle", "short_straddle"}
             THEN R(stock_price * position_size * 100)
             ELSE R(0)
        ELSE RatMul(max_loss, R(position_size))

\* max_loss of calculate_position_risk: an unbounded loss is replaced by the
\* stock price (covered call), three times the stock price (strangle,
\* straddle) or 0
PositionMaxLoss(strategy_analysis, position_size) ==
    LET strategy_type == Get(strategy_analysis, "strategy_type", "")
        max_loss == Get(Get(strategy_analysis, "returns", Empty), "max_loss", Inf)
        stock_price == Get(strategy_analysis, "stock_price", 0)
    IN  IF max_loss = Inf
        THEN IF strategy_type = "covered_call"
             THEN R(stock_price * position_size * 100)
             ELSE IF strategy_type \in {"short_strangle", "short_straddle"}
             THEN R(stock_price * 3 * position_size * 100)
             ELSE R(0)
        ELSE RatMul(max_loss, R(position_size))

\* the record calculate_position_risk builds from the three amounts
RiskMetrics(position_size, max_profit, max_loss, margin_requirement, initial_capital) ==
    [position_size |-> position_size,
     max_profit |-> max_profit,
     max_loss |-> max_loss,
     capital_at_risk_pct |->
        IF initial_capital > 0
        THEN RatMul(RatDiv(max_loss, R(initial_capital)), R(100))
        ELSE R(0),
     profit_potential_pct |->
        IF initial_capital > 0
        THEN RatMul(RatDiv(max_profit, R(initial_capital)), R(100))
        ELSE R(0),
     risk_reward_ratio |->
        IF RatLt(R(0), max_profit) THEN RatDiv(max_loss, max_profit) ELSE Inf,
     break_even_success_rate |->
        IF RatLt(R(0), RatAdd(max_loss, max_profit))
        THEN RatDiv(max_loss, RatAdd(max_loss, max_profit))
        ELSE R(0),
     margin_requirement |-> margin_requirement,
     buying_power_reduction |-> margin_requirement,
     return_on_margin |->
        IF RatLt(R(0), margin_requirement)
        THEN RatMul(RatDiv(max_profit, margin_requirement), R(100))
        ELSE R(0)]

\* RiskCalculator.calculate_position_risk, for a calculator built with
\* initial_capital
calculate_position_risk(initial_capital, strategy_analysis, position_size) ==
    RiskMetrics(position_size,
                RatMul(Get(Get(strategy_analysis, "returns", Empty), "max_profit", R(0)),
                       R(position_size)),
                PositionMaxLoss(strategy_analysis, position_size),
                _calculate_margin_requirement(strategy_analysis, position_size),
                initial_capital)

\* the sizing record calculate_optimal_size builds once max_loss is known
\* to be finite and positive
SizingInfo(max_loss, available_capital, margin_per_contract, risk_based_size, margin_based_size, recommended_size) ==
    LET actual_risk == RatMul(max_loss, R(recommended_size))
        actual_risk_pct ==
            IF available_capital > 0
            THEN RatMul(RatDiv(actual_risk, R(available_capital)), R(100))
            ELSE R(0)
    IN  [recommended_size |-> IF recommended_size > 0 THEN recommended_size ELSE 0,
         risk_based_size |-> risk_based_size,
         margin_based_size |-> margin_based_size,
         actual_risk_amount |-> actual_risk,
         actual_risk_pct |-> actual_risk_pct,
         margin_required |-> RatMul(margin_per_contract, R(recommended_size)),
         reason |-> "Optimal size based on risk and margin constraints",
         warnings |->
            (IF RatLt(R(2), actual_risk_pct) THEN <<"Risk exceeds maximum per trade limit">>
             ELSE <<>>)
            \o (IF recommended_size = 0 THEN <<"Position size too risky">> ELSE <<>>)]

\* risk_based_size = int(available_capital * 0.02 / max_loss)
RiskBasedSize(max_loss, available_capital) ==
    TruncInt(RatDiv(RatMul(R(available_capital), <<1, 50>>), max_loss))

\* the margin-based size with the whole capital as the margin budget
MarginBasedSizeFullCapital(margin_per_contract, available_capital) ==
    IF RatLt(R(0), margin_per_contract)
    THEN TruncInt(RatDiv(R(available_capital), margin_per_contract))
    ELSE 0

\* margin_based_size = int(available_capital * 0.5 / margin_per_contract)
\* if margin_per_contract > 0 else 0
MarginBasedSize(margin_per_contract, available_capital) ==
    IF RatLt(R(0), margin_per_contract)
    THEN TruncInt(RatDiv(RatMul(R(available_capital), <<1, 2>>), margin_per_contract))
    ELSE 0

\* the smaller of the two sizes, without the limit of 10 contracts
RecommendedSizeUncapped(risk_based_size, margin_based_size) ==
    Min(risk_based_size, margin_based_size)

\* recommended_size = min(risk_based_size, margin_based_size, 10)
RecommendedSize(risk_based_size, margin_based_size) ==
    Min3(risk_based_size, margin_based_size, 10)

\* calculate_optimal_size once max_loss is known to be finite and positive
SizeFor(max_loss, available_capital, margin_per_contract) ==
    SizingInfo(max_loss, available_capital, margin_per_contract,
               RiskBasedSize(max_loss, available_capital),
               MarginBasedSize(margin_per_contract, available_capital),
               RecommendedSize(RiskBasedSize(max_loss, available_capital),
                               MarginBasedSize(margin_per_contract, available_capital)))

\* PositionSizer.calculate_optimal_size (max_risk_per_trade = 0.02)
calculate_optimal_size(strategy_analysis, available_capital) ==
    LET max_loss == Get(Get(strategy_analysis, "returns", Empty), "max_loss", R(0))
    IN  IF RatLe(max_loss, R(0)) \/ max_loss = Inf
        THEN [recommended_size |-> 0,
              reason |-> "Unable to calculate due to infinite or zero loss"]
        ELSE SizeFor(max_loss, available_capital,
                     _calculate_margin_requirement(strategy_analysis, 1))

\* RiskMonitor.assess_risk_level
assess_risk_level(position_risk) ==
    LET risk_pct == Get(position_risk, "capital_at_risk_pct", R(0))
    IN  IF RatLe(risk_pct, R(1)) THEN "low_risk"
        ELSE IF RatLe(risk_pct, R(3)) THEN "medium_risk"
        ELSE IF RatLe(risk_pct, R(5)) THEN "high_risk"
        ELSE "extreme_risk"

\* the rules of _generate_trade_recommendation with the first two in the
\* other order
_generate_trade_recommendation_swapped(position_risk, risk_level) ==
    LET risk_pct == Get(position_risk, "capital_at_risk_pct", R(0))
        risk_reward == Get(position_risk, "risk_reward_ratio", Inf)
    IN  IF RatLt(R(3), risk_pct) THEN "CAUTION"
        ELSE IF RatLt(R(5), risk_pct) THEN "AVOID"
        ELSE IF RatLt(R(4), risk_reward) THEN "CAUTION"
        ELSE IF risk_level = "low_risk" /\ RatLe(risk_reward, R(2)) THEN "STRONG_BUY"
        ELSE IF risk_level = "medium_risk" /\ RatLe(risk_reward, R(3)) THEN "BUY"
        ELSE "HOLD"

\* RiskManager._generate_trade_recommendation: the action it returns
_generate_trade_recommendation(position_risk, risk_level) ==
    LET risk_pct == Get(position_risk, "capital_at_risk_pct", R(0))
        risk_reward == Get(position_risk, "risk_reward_ratio", Inf)
    IN  IF RatLt(R(5), risk_pct) THEN "AVOID"
        ELSE IF RatLt(R(3), risk_pct) THEN "CAUTION"
        ELSE IF RatLt(R(4), risk_reward) THEN "CAUTION"
        ELSE IF risk_level = "low_risk" /\ RatLe(risk_reward, R(2)) THEN "STRONG_BUY"
        ELSE IF risk_level = "medium_risk" /\ RatLe(risk_reward, R(3)) THEN "BUY"
        ELSE "HOLD"

\* the record analyze_trade_risk returns for a size above 0
TradeRiskRecord(position_risk, risk_level, sizing_info) ==
    [recommendation |-> _generate_trade_recommendation(position_risk, risk_level),
     risk_level |-> risk_level,
     position_risk |-> position_risk,
     sizing_info |-> sizing_info,
     risk_metrics |->
        [max_loss |-> Get(position_risk, "max_loss", R(0)),
         max_profit |-> Get(position_risk, "max_profit", R(0)),
         risk_reward_ratio |-> Get(position_risk, "risk_reward_ratio", R(0)),
         capital_at_risk_pct |-> Get(position_risk, "capital_at_risk_pct", R(0))]]

\* analyze_trade_risk without the early return for a size of 0
TradeRiskForNoEarlyReturn(initial_capital, strategy_analysis, sizing_info, position_risk) ==
    TradeRiskRecord(position_risk, assess_risk_level(position_risk), sizing_info)

\* analyze_trade_risk after the sizing
TradeRiskFor(initial_capital, strategy_analysis, sizing_info, position_risk) ==
    IF sizing_info.recommended_size = 0
    THEN [recommendation |-> "AVOID", sizing_info |-> sizing_info]
    ELSE TradeRiskRecord(position_risk, assess_risk_level(position_risk), sizing_info)

\* RiskManager.analyze_trade_risk, for a manager built with initial_capital
\* (the reason texts are left out).  Its except branch, which returns
\* recommendation ERROR with risk_level unknown_risk, is not reached: the
\* three methods it calls catch their own exceptions.
analyze_trade_risk(initial_capital, strategy_analysis, available_capital) ==
    LET sizing_info == calculate_optimal_size(strategy_analysis, available_capital)
    IN  TradeRiskFor(initial_capital, strategy_analysis, sizing_info,
                     calculate_position_risk(initial_capital, strategy_analysis,
                                             sizing_info.recommended_size))

\* the sum of a field, read with pos.get(key, 0), over the positions
RECURSIVE SumField(_, _)
SumField(positions_list, key) ==
    IF positions_list = <<>> THEN R(0)
    ELSE RatAdd(Get(Head(positions_list), key, R(0)),
                SumField(Tail(positions_list), key))

\* the metrics of calculate_portfolio_risk (the var_95, var_99 and
\* expected_shortfall entries, which no method reads, are left out)
PortfolioMetrics(initial_capital, positions_list, total_max_profit, total_max_loss, total_margin) ==
    [total_positions |-> Len(positions_list),
     total_max_profit |-> total_max_profit,
     total_max_loss |-> total_max_loss,
     adjusted_max_loss |-> RatMul(total_max_loss, <<4, 5>>),
     total_margin_requirement |-> total_margin,
     portfolio_risk_pct |->
        RatMul(RatDiv(RatMul(total_max_loss, <<4, 5>>), R(initial_capital)), R(100)),
     portfolio_return_potential_pct |->
        RatMul(RatDiv(total_max_profit, R(initial_capital)), R(100)),
     diversification_ratio |->
        Norm(Cardinality({Get(positions_list[i], "symbol", "") :
                             i \in 1..Len(positions_list)}),
             Len(positions_list)),
     margin_utilization_pct |->
        RatMul(RatDiv(total_margin, R(initial_capital)), R(100))]

\* RiskCalculator.calculate_portfolio_risk: {} for no positions, and {}
\* from the except branch when the division by initial_capital = 0 raises
calculate_portfolio_risk(initial_capital, positions_list) ==
    IF positions_list = <<>> THEN Empty
    ELSE IF initial_capital = 0 THEN Empty
    ELSE PortfolioMetrics(initial_capital, positions_list,
                          SumField(positions_list, "max_profit"),
                          SumField(positions_list, "max_loss"),
                          SumField(positions_list, "margin_requirement"))

\* RiskMonitor.check_risk_violations: which of the three limits are broken
check_risk_violations(portfolio_metrics) ==
    (IF RatLt(R(10), Get(portfolio_metrics, "portfolio_risk_pct", R(0)))
     THEN <<"portfolio_risk">> ELSE <<>>)
    \o (IF RatLt(R(50), Get(portfolio_metrics, "margin_utilization_pct", R(0)))
        THEN <<"margin_utilization">> ELSE <<>>)
    \o (IF RatLt(Get(portfolio_metrics, "diversification_ratio", R(1)), <<1, 2>>)
        THEN <<"concentration">> ELSE <<>>)

\* the alerts generate_risk_alerts raises for one position; days_left is
\* (expiry_date - now).days, absent when the position has no expiry_date or
\* one that does not parse
PositionAlerts(pos) ==
    (IF "days_left" \in DOMAIN pos /\ pos.days_left <= 3 THEN <<"expires_in_days">>
     ELSE IF "days_left" \in DOMAIN pos /\ pos.days_left <= 7 THEN <<"expires_in_week">>
     ELSE <<>>)
    \o (IF "option_details" \in DOMAIN pos
           /\ Get(Get(pos.option_details, "liquidity", Empty), "volume", 0) < 50
        THEN <<"low_liquidity">> ELSE <<>>)
    \o (IF "greeks" \in DOMAIN pos
           /\ RatLt(<<1, 2>>, RatAbs(Get(pos.greeks, "delta", R(0))))
        THEN <<"high_delta">> ELSE <<>>)

\* RiskMonitor.generate_risk_alerts
RECURSIVE generate_risk_alerts(_)
generate_risk_alerts(positions_list) ==
    IF positions_list = <<>> THEN <<>>
    ELSE PositionAlerts(Head(positions_list)) \o generate_risk_alerts(Tail(positions_list))

\* RiskManager._assess_overall_risk
_assess_overall_risk(portfolio_metrics) ==
    LET portfolio_risk == Get(portfolio_metrics, "portfolio_risk_pct", R(0))
    IN  IF RatLe(portfolio_risk, R(3)) THEN "low_risk"
        ELSE IF RatLe(portfolio_risk, R(7)) THEN "medium_risk"
        ELSE IF RatLe(portfolio_risk, R(12)) THEN "high_risk"
        ELSE "extreme_risk"

\* the record analyze_portfolio_risk returns from its try block
PortfolioRiskRecord(portfolio_metrics, positions_list) ==
    [portfolio_metrics |-> portfolio_metrics,
     risk_violations |-> check_risk_violations(portfolio_metrics),
     risk_alerts |-> generate_risk_alerts(positions_list),
     overall_risk_level |-> _assess_overall_risk(portfolio_metrics)]

\* RiskManager.analyze_portfolio_risk.  Its except branch (overall risk
\* level unknown_risk) is not reached: the three methods it calls catch
\* their own exceptions.
analyze_portfolio_risk(initial_capital, positions_list) ==
    PortfolioRiskRecord(calculate_portfolio_risk(initial_capital, positions_list),
                        positions_list)

(***************************************************************************)
(* The payoff calculation of the visualizer (charts.py).  prices is a       *)
(* sequence of whole-dollar prices and the result a sequence of the same    *)
(* length (np.where and the arithmetic act element by element); payoffs     *)
(* are dollars per contract.                                                *)
(***************************************************************************)

\* np.zeros_like(prices)
zeros_like(prices) == [i \in 1..Len(prices) |-> 0]

\* (stock_pnl + option_pnl) * 100 with premium = max_profit / 100 per share:
\* 100 * (price - stock_price - max(price - strike, 0)) + max_profit.
_covered_call_payoff(strategy_analysis, prices) ==
    LET strike == Get(strategy_analysis, "strike", 100)
        max_profit == Get(Get(strategy_analysis, "returns", Empty), "max_profit", 0)
        stock_price == Get(strategy_analysis, "stock_price", 100)
    IN  [i \in 1..Len(prices) |->
            (prices[i] - stock_price
               + (IF prices[i] > strike THEN -(prices[i] - strike) ELSE 0)) * 100
            + max_profit]

_cash_secured_put_payoff(strategy_analysis, prices) ==
    LET strike == Get(strategy_analysis, "strike", 100)
        premium == Get(Get(strategy_analysis, "returns", Empty), "max_profit", 0)
    IN  [i \in 1..Len(prices) |->
            (IF prices[i] < strike THEN -(strike - prices[i]) * 100 ELSE 0) + premium]

_short_strangle_payoff(strategy_analysis, prices) ==
    LET strikes == Get(strategy_analysis, "strikes", Empty)
        put_strike == Get(strikes, "put_strike", 90)
        call_strike == Get(strikes, "call_strike", 110)
        net_credit == Get(Get(strategy_analysis, "returns", Empty), "net_credit", 0)
    IN  [i \in 1..Len(prices) |->
            (IF prices[i] < put_strike THEN -(put_strike - prices[i]) * 100 ELSE 0)
            + (IF prices[i] > call_strike THEN -(prices[i] - call_strike) * 100 ELSE 0)
            + net_credit]

\* The dispatch on strategy_type: the three single-expiry strategies have a
\* payoff method, every other type (the vertical spreads included) falls to
\* the else branch.
_calculate_payoffs(strategy_analysis, prices) ==
    LET strategy_type == Get(strategy_analysis, "strategy_type", "")
    IN  IF strategy_type = "covered_call"
        THEN _covered_call_payoff(strategy_analysis, prices)
        ELSE IF strategy_type = "cash_secured_put"
        THEN _cash_secured_put_payoff(strategy_analysis, prices)
        ELSE IF strategy_type = "short_strangle"
        THEN _short_strangle_payoff(strategy_analysis, prices)
        ELSE zeros_like(prices)

(***************************************************************************)
(* The roll advisor (roll_advisor.py).  A position is the dict of a stored  *)
(* position; strike, premium and the stock price are rationals.             *)
(* current_dte is (expiry_date - datetime.now()).days, the whole days from  *)
(* now to the position's expiry_date (-1 when the date does not parse and   *)
(* is replaced by datetime.now()).  Labels and rationales are texts in the  *)
(* code; the model names the branch that chose them.                        *)
(***************************************************************************)

\* round(x, 0) for x >= 0: the nearest whole number, a tie going to the
\* even one
RoundHalfEven(x) ==
    LET f == x[1] \div x[2]
        twice == 2 * (x[1] % x[2])
    IN  IF twice < x[2] THEN f
        ELSE IF twice > x[2] THEN f + 1
        ELSE IF f % 2 = 0 THEN f ELSE f + 1

\* (new_dte / current_dte) ** 0.5 to two decimal places, for current_dte > 0
SqrtDteRatio(new_dte, current_dte) ==
    LET n == (new_dte * 10000) \div current_dte
        root == CHOOSE k \in 0..1000 : k * k <= n /\ n < (k + 1) * (k + 1)
    IN  Norm(root, 100)

PutStrategies == {"cash_secured_put", "short_put"}

CallStrategies == {"covered_call", "short_call"}

\* new_dte = max(current_dte, 7) + 30
NewDte(current_dte) == (IF current_dte > 7 THEN current_dte ELSE 7) + 30

RollOutCredit(strategy_type, strike, stock_price, original_premium, current_dte, is_itm) ==
    LET time_value_ratio == IF current_dte > 0
                            THEN SqrtDteRatio(NewDte(current_dte), current_dte)
                            ELSE R(2)
        new_premium_est == RatMul(original_premium, time_value_ratio)
        intrinsic == IF strategy_type \in PutStrategies
                     THEN RatMax(R(0), RatSub(strike, stock_price))
                     ELSE RatMax(R(0), RatSub(stock_price, strike))
    IN  IF is_itm
        THEN RatSub(new_premium_est,
                    RatAdd(intrinsic, RatMul(original_premium, <<3, 10>>)))
        ELSE RatSub(new_premium_est,
                    RatMul(original_premium,
                           IF current_dte <= 7 THEN <<1, 5>> ELSE <<2, 5>>))

_build_roll_out(strategy_type, strike, stock_price, original_premium, current_dte, is_itm, is_threatened) ==
    [roll_type |-> "roll_out",
     new_strike |-> strike,
     new_expiry |-> NewDte(current_dte),
     new_dte |-> NewDte(current_dte),
     estimated_credit |-> RollOutCredit(strategy_type, strike, stock_price,
                                        original_premium, current_dte, is_itm),
     original_premium |-> original_premium,
     is_itm |-> is_itm,
     rationale |-> IF is_itm THEN "itm"
                   ELSE IF is_threatened THEN "threatened"
                   ELSE IF current_dte <= 21 THEN "near_expiry"
                   ELSE "next_cycle"]

\* new_premium_est - buyback_cost of the two strike-changing rolls
StrikeRollCredit(strike_factor, intrinsic, original_premium, current_dte, is_itm) ==
    LET new_premium_est ==
            RatMul(RatMul(original_premium, strike_factor),
                   SqrtDteRatio(NewDte(current_dte),
                                IF current_dte > 1 THEN current_dte ELSE 1))
    IN  RatSub(new_premium_est,
               IF is_itm
               THEN RatAdd(intrinsic, RatMul(original_premium, <<1, 5>>))
               ELSE RatMul(original_premium, <<3, 10>>))

\* round(stock_price * 0.95, 0) taken as it is, without the fallback to
\* strike - 5
RollDownStrikeNoFloor(strike, stock_price) ==
    R(RoundHalfEven(RatMul(stock_price, <<19, 20>>)))

\* new_strike = round(stock_price * 0.95, 0), or strike - 5 if that is not
\* below the strike
RollDownStrike(strike, stock_price) ==
    LET rounded == R(RoundHalfEven(RatMul(stock_price, <<19, 20>>)))
    IN  IF RatLe(strike, rounded) THEN RatSub(strike, R(5)) ELSE rounded

_build_roll_down_out(strategy_type, strike, stock_price, original_premium, current_dte, is_itm) ==
    LET new_strike == RollDownStrike(strike, stock_price)
    IN  [roll_type |-> "roll_down_out",
         new_strike |-> new_strike,
         new_expiry |-> NewDte(current_dte),
         new_dte |-> NewDte(current_dte),
         estimated_credit |->
             StrikeRollCredit(IF current_dte > 0 THEN RatDiv(new_strike, strike)
                              ELSE <<9, 10>>,
                              RatMax(R(0), RatSub(strike, stock_price)),
                              original_premium, current_dte, is_itm),
         original_premium |-> original_premium,
         is_itm |-> is_itm,
         rationale |-> "roll_down"]

\* new_strike = round(stock_price * 1.05, 0), or strike + 5 if that is not
\* above the strike
RollUpStrike(strike, stock_price) ==
    LET rounded == R(RoundHalfEven(RatMul(stock_price, <<21, 20>>)))
    IN  IF RatLe(rounded, strike) THEN RatAdd(strike, R(5)) ELSE rounded

_build_roll_up_out(strategy_type, strike, stock_price, original_premium, current_dte, is_itm) ==
    LET new_strike == RollUpStrike(strike, stock_price)
    IN  [roll_type |-> "roll_up_out",
         new_strike |-> new_strike,
         new_expiry |-> NewDte(current_dte),
         new_dte |-> NewDte(current_dte),
         estimated_credit |->
             StrikeRollCredit(IF current_dte > 0 THEN RatDiv(strike, new_strike)
                              ELSE <<9, 10>>,
                              RatMax(R(0), RatSub(stock_price, strike)),
                              original_premium, current_dte, is_itm),
         original_premium |-> original_premium,
         is_itm |-> is_itm,
         rationale |-> "roll_up"]

\* the candidates for a position with a symbol and a positive strike
RollSuggestions(strategy_type, strike, stock_price, original_premium, current_dte, is_itm, is_threatened) ==
    <<_build_roll_out(strategy_type, strike, stock_price, original_premium,
                      current_dte, is_itm, is_threatened)>>
    \o (IF strategy_type \in PutStrategies
        THEN <<_build_roll_down_out(strategy_type, strike, stock_price,
                                    original_premium, current_dte, is_itm)>>
        ELSE <<>>)
    \o (IF strategy_type \in CallStrategies
        THEN <<_build_roll_up_out(strategy_type, strike, stock_price,
                                  original_premium, current_dte, is_itm)>>
        ELSE <<>>)

suggest_rolls(position, current_stock_price, current_dte) ==
    LET symbol == Get(position, "symbol", "")
        strategy_type == Get(position, "strategy_type", "")
        strike == Get(position, "strike", R(0))
        original_premium == Get(position, "premium_per_contract", R(0))
    IN  IF symbol = "" \/ RatLe(strike, R(0)) THEN <<>>
        ELSE RollSuggestions(
                 strategy_type, strike, current_stock_price, original_premium,
                 current_dte,
                 IF strategy_type \in PutStrategies
                 THEN RatLt(current_stock_price, strike)
                 ELSE IF strategy_type \in CallStrategies
                 THEN RatLt(strike, current_stock_price)
                 ELSE FALSE,
                 IF strategy_type \in PutStrategies
                 THEN RatLt(current_stock_price, RatMul(strike, <<103, 100>>))
                 ELSE IF strategy_type \in CallStrategies
                 THEN RatLt(RatMul(strike, <<97, 100>>), current_stock_price)
                 ELSE FALSE)

\* get_roll_recommendation: dte is 999 when the expiry date does not parse
get_roll_recommendation(position, current_stock_price, dte) ==
    LET strategy == Get(position, "strategy_type", "")
        strike == Get(position, "strike", R(0))
    IN  IF strategy \in PutStrategies
        THEN IF RatLt(current_stock_price, RatMul(strike, <<19, 20>>)) THEN "deep_itm_put"
             ELSE IF RatLt(current_stock_price, strike) THEN "light_itm_put"
             ELSE IF dte <= 7 THEN "expiring_otm_put"
             ELSE IF dte <= 21 THEN "take_profit"
             ELSE "healthy"
        ELSE IF strategy \in CallStrategies
        THEN IF RatLt(RatMul(strike, <<21, 20>>), current_stock_price) THEN "deep_itm_call"
             ELSE IF RatLt(strike, current_stock_price) THEN "light_itm_call"
             ELSE IF dte <= 7 THEN "expiring_otm_call"
             ELSE IF dte <= 21 THEN "take_profit"
             ELSE "healthy"
        ELSE "unsupported"

----------------------------------------------------------------------------
(* Actions of the position store                                           *)

\* The observer of a caller walking one position through the wheel: cycle
\* counts the requests sell_put, assigned, sell_call, called_away, idle made
\* in this order, one after the other, on a position that existed with
\* wheel state idle before the first of them.
CycleAfterUpdate(position_id, new_state) ==
    IF /\ cycle \in 1..4
       /\ position_id = cycleId
       /\ new_state = WheelCycle[cycle + 1]
    THEN /\ cycle' = cycle + 1
         /\ cycleId' = cycleId
    ELSE IF /\ position_id \in DOMAIN positions
            /\ positions[position_id].wheel_state = "idle"
            /\ new_state = WheelCycle[1]
    THEN /\ cycle' = 1
         /\ cycleId' = position_id
    ELSE /\ cycle' = 0
         /\ cycleId' = cycleId

CycleReset == cycle' = 0 /\ cycleId' = cycleId

AddPosition ==
    \E insert_ok \in BOOLEAN, wheel_state \in StateArgs :
        /\ add_position(insert_ok, wheel_state)
        /\ call' = <<"add_position", wheel_state>>
        /\ CycleReset
        /\ UNCHANGED nonStoreVars

ClosePosition ==
    \E position_id \in PositionIds :
        /\ close_position(position_id)
        /\ call' = <<"close_position", "">>
        /\ CycleReset
        /\ UNCHANGED nonStoreVars

DeletePosition ==
    \E position_id \in PositionIds :
        /\ delete_position(position_id)
        /\ call' = <<"delete_position", "">>
        /\ CycleReset
        /\ UNCHANGED nonStoreVars

UpdateWheelState ==
    \E position_id \in PositionIds, new_state \in StateArgs :
        /\ update_wheel_state(position_id, new_state)
        /\ call' = <<"update_wheel_state", new_state>>
        /\ CycleAfterUpdate(position_id, new_state)
        /\ UNCHANGED nonStoreVars

UpdatePositionGreeks ==
    \E position_id \in PositionIds, delta \in GreekValues :
        /\ update_position_greeks(position_id, delta)
        /\ call' = <<"update_position_greeks", "">>
        /\ CycleReset
        /\ UNCHANGED nonStoreVars

\* the store after PortfolioStore.__init__ on a fresh database
StoreInit ==
    /\ positions = <<>>
    /\ nextId = 1
    /\ ret = TRUE
    /\ call = <<"__init__", "">>
    /\ cycleId = 1
    /\ cycle = 0

\* the spread functions before any call
SpreadIdle ==
    /\ spreadIn = [stock_price |-> 0, short |-> Empty, long |-> Empty,
                   days_to_expiry |-> 0]
    /\ spreadOut = [fn |-> "none", result |-> Empty]

\* the ranking before any call
RankIdle ==
    /\ rankIn = <<>>
    /\ rankOut = [fn |-> "none", result |-> <<>>]

\* the validators before any call
ValIdle ==
    /\ valIn = [config |-> DefaultConfig, strategy_analysis |-> Empty]
    /\ valOut = [fn |-> "none", raised |-> FALSE, result |-> FALSE]

\* the screener before any call
ScreenIdle ==
    /\ screenConfig = DefaultConfig
    /\ market = <<>>
    /\ screenOut = [fn |-> "none", max_results |-> 0, raised |-> FALSE, result |-> <<>>]

\* the risk manager before any call
RiskIdle ==
    /\ riskIn = [initial_capital |-> 0, strategy_analysis |-> Empty,
                 available_capital |-> 0, position_risk |-> Empty,
                 positions |-> <<>>]
    /\ riskOut = [fn |-> "none", result |-> Empty]

\* the pricing functions before any call
PriceIdle ==
    /\ priceIn = [fn |-> "none"]
    /\ priceOut = [fn |-> "none", result |-> Empty]

PayoffIdle ==
    /\ payIn = [strategy_analysis |-> Empty, prices |-> <<>>]
    /\ payOut = [fn |-> "none", result |-> <<>>]

\* the roll advisor before any call
RollIdle ==
    /\ rollIn = [position |-> Empty, current_stock_price |-> <<0, 1>>, current_dte |-> 0]
    /\ rollOut = [fn |-> "none", result |-> <<>>]

Init == StoreInit /\ SpreadIdle /\ RankIdle /\ ValIdle /\ ScreenIdle /\ RiskIdle /\ PriceIdle /\ PayoffIdle /\ RollIdle

Next ==
    \/ AddPosition
    \/ ClosePosition
    \/ DeletePosition
    \/ UpdateWheelState
    \/ UpdatePositionGreeks

Spec == Init /\ [][Next]_vars

----------------------------------------------------------------------------
(* The spread functions applied to bounded inputs (specification SpreadSpec) *)

SpreadStrikes == {90, 95, 100}

SpreadStockPrices == {100}

SpreadDays == {0, 30}

\* <<bid, ask, lastPrice>> in cents; a bid of 0 makes the mid price the
\* last price
PriceTriples ==
    {<<50 * b, 54 * b, 52 * b>> : b \in 1..MaxBid}
    \cup {<<0, 0, 0>>, <<0, 60, 55>>, <<100, 130, 110>>}

\* quotes of one type with the liquidity and Black-Scholes values fixed,
\* and one quote without a strike
SpreadQuotes(type) ==
    {Quote(type, TRUE, k, t[1], t[2], t[3], 100, 200, iv, 20, 70) :
        k \in SpreadStrikes, t \in PriceTriples, iv \in {0, 20}}
    \cup {Quote(type, FALSE, 0, 50, 54, 52, 100, 200, 20, 20, 70)}

AnalyzeBullPutSpread ==
    /\ spreadOut.fn = "none"
    /\ spreadIn.short.type = "put"
    /\ spreadOut' =
          [fn |-> "analyze_bull_put_spread",
           result |-> analyze_bull_put_spread(spreadIn.stock_price,
                          spreadIn.short, spreadIn.long,
                          spreadIn.days_to_expiry)]
    /\ UNCHANGED <<spreadIn, nonSpreadVars>>

AnalyzeBearCallSpread ==
    /\ spreadOut.fn = "none"
    /\ spreadIn.short.type = "call"
    /\ spreadOut' =
          [fn |-> "analyze_bear_call_spread",
           result |-> analyze_bear_call_spread(spreadIn.stock_price,
                          spreadIn.short, spreadIn.long,
                          spreadIn.days_to_expiry)]
    /\ UNCHANGED <<spreadIn, nonSpreadVars>>

SpreadInit ==
    /\ StoreInit
    /\ RollIdle
    /\ PayoffIdle
    /\ PriceIdle
    /\ RiskIdle
    /\ RankIdle
    /\ ValIdle
    /\ ScreenIdle
    /\ \E type \in {"put", "call"} :
         spreadIn \in [stock_price : SpreadStockPrices,
                       short : SpreadQuotes(type),
                       long : SpreadQuotes(type),
                       days_to_expiry : SpreadDays]
    /\ spreadOut = [fn |-> "none", result |-> Empty]

SpreadNext == AnalyzeBullPutSpread \/ AnalyzeBearCallSpread

SpreadSpec == SpreadInit /\ [][SpreadNext]_vars

----------------------------------------------------------------------------
(* rank_selling_opportunities applied to bounded lists (specification      *)
(* RankSpec)                                                               *)

\* sequences over S of length 0..n
SeqUpTo(S, n) == UNION {[1..k -> S] : k \in 0..n}

\* opportunities as the strategy functions shape them: annualized yields of
\* 0, 15 and 20 percent (15 and 20 both reach the 30-point cap), a finite
\* or unbounded max_loss, a positive or negative max_profit
RankOpps ==
    {[strategy_type |-> "cash_secured_put",
      returns |-> [annualized_yield |-> R(ay), max_profit |-> R(pl[1]),
                   max_loss |-> pl[2]],
      probabilities |-> [prob_profit_short |-> R(80)],
      greeks |-> [delta |-> <<1, 5>>],
      option_details |-> [liquidity |-> [volume |-> 100, open_interest |-> 500,
                                         bid_ask_spread_pct |-> R(4)]]] :
        ay \in {0, 15, 20},
        pl \in {<<50, R(100)>>, <<-500, R(100)>>, <<50, Inf>>}}

\* a call far in the money, a year from its expiry, quoted 9.00 / 11.00 (under
\* its intrinsic value) at an implied volatility of 200 percent: the code's
\* probability of profit is norm.cdf((ln(100 / 60) - 2) / 2) = 23 percent
\* and its delta norm.cdf(1.37) = 0.92
DeepCall == Quote("call", TRUE, 50, 900, 1100, 1000, 0, 0, 200, 92, 23)

\* opportunities returned by the strategy functions for a stock at 100
StrategyOpps ==
    {analyze_covered_call(100, DeepCall, 365)}
    \cup {analyze_covered_call(100, Quote("call", TRUE, 105, 100, 108, 104, 200, 1000, 30, 30, 70), 30),
          analyze_cash_secured_put(100, Quote("put", TRUE, 95, 100, 108, 104, 200, 1000, 30, -30, 75), 30)}

\* an opportunity at every cap: yield 20 percent, probability 100 percent,
\* liquid, max_profit equal to max_loss, delta 0.2
CeilingOpps ==
    {[strategy_type |-> "cash_secured_put",
      returns |-> [annualized_yield |-> R(20), max_profit |-> R(100),
                   max_loss |-> R(100)],
      probabilities |-> [prob_profit_short |-> R(100)],
      greeks |-> [delta |-> <<1, 5>>],
      option_details |-> [liquidity |-> [volume |-> 1000, open_interest |-> 5000,
                                         bid_ask_spread_pct |-> R(1)]]]}

\* the lists ranked: any list of up to MaxOpps of RankOpps, or one
\* opportunity of the other two sets
RankInputs ==
    SeqUpTo(RankOpps, MaxOpps)
    \cup {<<o>> : o \in StrategyOpps \cup CeilingOpps}

RankSellingOpportunities ==
    /\ rankOut.fn = "none"
    /\ rankOut' = [fn |-> "rank_selling_opportunities",
                   result |-> rank_selling_opportunities(rankIn)]
    /\ UNCHANGED <<rankIn, nonRankVars>>

RankInit ==
    /\ StoreInit
    /\ RollIdle
    /\ PayoffIdle
    /\ PriceIdle
    /\ RiskIdle
    /\ SpreadIdle
    /\ ValIdle
    /\ ScreenIdle
    /\ rankIn \in RankInputs
    /\ rankOut = [fn |-> "none", result |-> <<>>]

RankNext == RankSellingOpportunities

RankSpec == RankInit /\ [][RankNext]_vars

----------------------------------------------------------------------------
(* The validators applied to bounded analyses (specification ValidatorSpec) *)

\* configs as the tests set them: the defaults with the two thresholds
\* updated
ValidatorConfigs ==
    {Override(DefaultConfig, [min_profit_probability |-> R(pp),
                              min_annualized_return |-> R(ar)]) :
        pp \in {0, 40, 70}, ar \in {0, 10, 15}}

\* strategy analyses with the fields the validators read
FullAnalyses ==
    {[greeks |-> [delta |-> d],
      returns |-> [annualized_yield |-> R(r[1]), profit_probability |-> R(r[2]),
                   net_credit |-> R(r[3])],
      probabilities |-> [prob_profit_short |-> R(pp)]] :
        d \in {<<1, 20>>, <<1, 5>>, <<-3, 10>>, <<3, 5>>},
        r \in {8, 12, 20} \X {20, 50} \X {-50, 0, 200},
        pp \in {60, 80}}

\* analyses with a part missing, down to the empty dict
PartialAnalyses ==
    {Empty,
     [returns |-> [annualized_yield |-> R(20)]],
     [greeks |-> [delta |-> <<1, 5>>], returns |-> Empty],
     [greeks |-> [delta |-> <<1, 5>>], returns |-> [annualized_yield |-> R(20)]],
     [returns |-> [net_credit |-> R(200), annualized_yield |-> R(20)]],
     [returns |-> [net_credit |-> R(200), profit_probability |-> R(50)]]}

ValidatorAnalyses == FullAnalyses \cup PartialAnalyses

ValidateCoveredCall ==
    /\ valOut.fn = "none"
    /\ valOut' = [fn |-> "_validate_covered_call", raised |-> FALSE,
                  result |-> _validate_covered_call(valIn.config, valIn.strategy_analysis)]
    /\ UNCHANGED <<valIn, nonValVars>>

ValidateCashSecuredPut ==
    /\ valOut.fn = "none"
    /\ valOut' = [fn |-> "_validate_cash_secured_put", raised |-> FALSE,
                  result |-> _validate_cash_secured_put(valIn.config, valIn.strategy_analysis)]
    /\ UNCHANGED <<valIn, nonValVars>>

ValidateShortStrangle ==
    /\ valOut.fn = "none"
    /\ valOut' = [fn |-> "_validate_short_strangle", raised |-> FALSE,
                  result |-> _validate_short_strangle(valIn.config, valIn.strategy_analysis)]
    /\ UNCHANGED <<valIn, nonValVars>>

ValidatorInit ==
    /\ StoreInit
    /\ RollIdle
    /\ PayoffIdle
    /\ PriceIdle
    /\ RiskIdle
    /\ SpreadIdle
    /\ RankIdle
    /\ ScreenIdle
    /\ valIn \in [config : ValidatorConfigs, strategy_analysis : ValidatorAnalyses]
    /\ valOut = [fn |-> "none", raised |-> FALSE, result |-> FALSE]

ValidatorNext ==
    \/ ValidateCoveredCall
    \/ ValidateCashSecuredPut
    \/ ValidateShortStrangle

ValidatorSpec == ValidatorInit /\ [][ValidatorNext]_vars

----------------------------------------------------------------------------
(* The screens applied to bounded markets (specification ScreenSpec)       *)

\* the screener's config: the defaults, or the defaults with one setting
\* changed
ScreenConfigs ==
    {DefaultConfig,
     Override(DefaultConfig, [min_annualized_return |-> R(10)]),
     Override(DefaultConfig, [min_annualized_return |-> R(200)]),
     Override(DefaultConfig, [min_profit_probability |-> R(80)]),
     Override(DefaultConfig, [avoid_earnings |-> TRUE]),
     Override(DefaultConfig, [max_results_per_symbol |-> 1]),
     Override(DefaultConfig, [max_results_per_strategy_total |-> 1]),
     Override(DefaultConfig, [max_results_per_strategy_total |-> 1,
                              target_strategies |-> <<"covered_call",
                                                      "cash_secured_put">>])}

\* puts of a stock at 100: two liquid ones, a thinly traded one, one
\* without a strike
PutCatalog ==
    {Quote("put", TRUE, 90, 50, 54, 52, 200, 1000, 30, -15, 85),
     Quote("put", TRUE, 95, 100, 108, 104, 200, 1000, 30, -30, 75),
     Quote("put", TRUE, 95, 100, 108, 104, 10, 1000, 30, -30, 75),
     Quote("put", FALSE, 0, 50, 54, 52, 200, 1000, 30, -15, 85)}

CallCatalog ==
    {Quote("call", TRUE, 105, 100, 108, 104, 200, 1000, 30, 30, 70),
     Quote("call", TRUE, 110, 50, 54, 52, 200, 1000, 30, 15, 85),
     Quote("call", TRUE, 105, 100, 108, 104, 10, 1000, 30, 30, 70),
     Quote("call", FALSE, 0, 50, 54, 52, 200, 1000, 30, 15, 85)}

\* chains of different quotes, in any order
Chains(catalog) ==
    {c \in SeqUpTo(catalog, MaxChain) :
        \A i, j \in 1..Len(c) : i < j => c[i] # c[j]}

\* next earnings date of the symbol: unknown, 5 days before the expiry,
\* or 20 days after it
EarningsDates == {<<FALSE, 0>>, <<TRUE, 25>>, <<TRUE, 50>>}

\* one symbol at 100 with one expiry 30 days out
ScreenMarkets(earnings) ==
    {<<[symbol |-> "AAA", stock_price |-> 100,
        has_earnings |-> earnings[1], next_earnings_date |-> earnings[2],
        opportunities |-> <<[expiry_date |-> 30, expiry_date_parses |-> TRUE,
                             days_to_expiry |-> 30,
                             calls |-> calls, puts |-> puts]>>]>> :
        calls \in Chains(CallCatalog), puts \in Chains(PutCatalog)}

\* the earnings date varies under the default config and under
\* avoid_earnings
ScreenScenarios ==
    {sc \in ScreenConfigs \X EarningsDates :
        \/ ~sc[2][1]
        \/ sc[1] = DefaultConfig /\ sc[2][2] = 25
        \/ "avoid_earnings" \in DOMAIN sc[1]}

ScreenCoveredCalls ==
    /\ screenOut.fn = "none"
    /\ screenOut' = [fn |-> "screen_covered_calls", max_results |-> 0, raised |-> FALSE,
                     result |-> screen_covered_calls(screenConfig, market)]
    /\ UNCHANGED <<screenConfig, market, nonScreenVars>>

ScreenCashSecuredPuts ==
    /\ screenOut.fn = "none"
    /\ screenOut' = [fn |-> "screen_cash_secured_puts", max_results |-> 0, raised |-> FALSE,
                     result |-> screen_cash_secured_puts(screenConfig, market)]
    /\ UNCHANGED <<screenConfig, market, nonScreenVars>>

ScreenShortStrangles ==
    /\ screenOut.fn = "none"
    /\ screenOut' = [fn |-> "screen_short_strangles", max_results |-> 0, raised |-> FALSE,
                     result |-> screen_short_strangles(screenConfig, market)]
    /\ UNCHANGED <<screenConfig, market, nonScreenVars>>

ScreenBullPutSpreads ==
    /\ screenOut.fn = "none"
    /\ screenOut' = [fn |-> "screen_bull_put_spreads", max_results |-> 0, raised |-> FALSE,
                     result |-> screen_bull_put_spreads(screenConfig, market)]
    /\ UNCHANGED <<screenConfig, market, nonScreenVars>>

ScreenBearCallSpreads ==
    /\ screenOut.fn = "none"
    /\ screenOut' = [fn |-> "screen_bear_call_spreads", max_results |-> 0, raised |-> FALSE,
                     result |-> screen_bear_call_spreads(screenConfig, market)]
    /\ UNCHANGED <<screenConfig, market, nonScreenVars>>

GetTopOpportunities ==
    /\ screenOut.fn = "none"
    /\ \E max_results \in 1..MaxResults :
         screenOut' = [fn |-> "get_top_opportunities", max_results |-> max_results,
                       raised |-> GetTopRaises(screenConfig),
                       result |-> IF GetTopRaises(screenConfig) THEN <<>>
                                  ELSE get_top_opportunities(screenConfig, market,
                                                             max_results)]
    /\ UNCHANGED <<screenConfig, market, nonScreenVars>>

ScreenInit ==
    /\ StoreInit
    /\ RollIdle
    /\ PayoffIdle
    /\ PriceIdle
    /\ RiskIdle
    /\ SpreadIdle
    /\ RankIdle
    /\ ValIdle
    /\ \E sc \in ScreenScenarios :
         /\ screenConfig = sc[1]
         /\ market \in ScreenMarkets(sc[2])
    /\ screenOut = [fn |-> "none", max_results |-> 0, raised |-> FALSE, result |-> <<>>]

ScreenNext ==
    \/ ScreenCoveredCalls
    \/ ScreenCashSecuredPuts
    \/ ScreenShortStrangles
    \/ ScreenBullPutSpreads
    \/ ScreenBearCallSpreads
    \/ GetTopOpportunities

ScreenSpec == ScreenInit /\ [][ScreenNext]_vars

----------------------------------------------------------------------------
(* The screens of a screener built from a caller's config (specification   *)
(* ConfigSpec)                                                             *)

\* the config argument of OptionsScreener(config): none, one key only, and
\* the default config without one of its keys
SuppliedConfigs ==
    {Empty,
     [min_annualized_return |-> R(10)],
     Without(DefaultConfig, "min_volume"),
     Without(DefaultConfig, "max_days_to_expiry"),
     Without(DefaultConfig, "min_delta"),
     Without(DefaultConfig, "min_profit_probability"),
     Without(DefaultConfig, "max_results_per_symbol")}

ConfigInit ==
    /\ StoreInit
    /\ RollIdle
    /\ PayoffIdle
    /\ PriceIdle
    /\ RiskIdle
    /\ SpreadIdle
    /\ RankIdle
    /\ ValIdle
    /\ \E config \in SuppliedConfigs : screenConfig = OptionsScreener(config)
    /\ market \in ScreenMarkets(<<FALSE, 0>>)
    /\ screenOut = [fn |-> "none", max_results |-> 0, raised |-> FALSE, result |-> <<>>]

ConfigNext ==
    \/ ScreenCoveredCalls
    \/ ScreenCashSecuredPuts
    \/ ScreenShortStrangles
    \/ ScreenBullPutSpreads
    \/ ScreenBearCallSpreads
    \/ GetTopOpportunities

ConfigSpec == ConfigInit /\ [][ConfigNext]_vars

----------------------------------------------------------------------------
(* The risk manager applied to bounded arguments (specification RiskSpec)   *)

\* a strategy analysis as the tests write it
TestAnalysis(strategy_type, stock_price, strike, max_profit, max_loss) ==
    [strategy_type |-> strategy_type, stock_price |-> stock_price,
     strike |-> strike,
     returns |-> [max_profit |-> R(max_profit), max_loss |-> R(max_loss)]]

\* an analysis whose max_loss is float('inf')
UnboundedAnalysis(strategy_type, stock_price, max_profit) ==
    [strategy_type |-> strategy_type, stock_price |-> stock_price,
     returns |-> [max_profit |-> R(max_profit), max_loss |-> Inf]]

\* strategy analyses: the three of the tests, a spread with a small
\* max_loss, one with max_loss 0, a covered call whose margin is more than
\* 25 times its max_loss, one without returns, three with an
\* unbounded max_loss, and what the strategy functions return for a stock
\* at 100
RiskAnalyses ==
    {TestAnalysis("covered_call", 100, 105, 200, 500),
     TestAnalysis("short_strangle", 100, 0, 100, 50000),
     TestAnalysis("cash_secured_put", 100, 95, 150, 9350),
     TestAnalysis("bull_put_spread", 100, 95, 50, 100),
     TestAnalysis("bull_put_spread", 100, 95, 500, 0),
     TestAnalysis("covered_call", 100, 105, 200, 300),
     Empty,
     UnboundedAnalysis("covered_call", 100, 200),
     UnboundedAnalysis("short_straddle", 100, 300),
     UnboundedAnalysis("short_call", 100, 100),
     analyze_covered_call(100, Quote("call", TRUE, 105, 100, 108, 104, 200, 1000, 30, 30, 70), 30),
     analyze_bull_put_spread(100, Quote("put", TRUE, 95, 100, 108, 104, 200, 1000, 30, -30, 75),
                             Quote("put", TRUE, 90, 50, 54, 52, 200, 1000, 30, -15, 85), 30),
     analyze_short_strangle(100, Quote("call", TRUE, 105, 100, 108, 104, 200, 1000, 30, 30, 70),
                            Quote("put", TRUE, 95, 100, 108, 104, 200, 1000, 30, -30, 75), 30)}

\* available_capital
Capitals == {0, 10000, 100000, 1000000}

\* initial_capital of the RiskManager
InitialCapitals == {0, 100000}

\* position risks around the thresholds of the recommendation rules, and {}
PositionRisks ==
    {[capital_at_risk_pct |-> pct, risk_reward_ratio |-> rr] :
        pct \in {R(0), <<1, 2>>, R(1), <<3, 2>>, R(3), <<7, 2>>, R(5), R(6)},
        rr \in {R(1), R(2), <<5, 2>>, R(3), <<7, 2>>, R(4), R(5), Inf}}
    \cup {Empty}

\* positions of a portfolio: position risks with the symbol, one expiring
\* in two days with a delta of 0.6, one thinly traded
PortfolioPositions ==
    {[symbol |-> "AAA", max_profit |-> R(200), max_loss |-> R(500),
      margin_requirement |-> R(10000)],
     [symbol |-> "AAA", max_profit |-> R(150), max_loss |-> R(9350),
      margin_requirement |-> R(9500), days_left |-> 2,
      greeks |-> [delta |-> <<3, 5>>]],
     [symbol |-> "BBB", max_profit |-> R(100), max_loss |-> R(50000),
      margin_requirement |-> R(60000),
      option_details |-> [liquidity |-> [volume |-> 10]]]}

\* the arguments of one call: of the trade methods, of
\* _generate_trade_recommendation, or of analyze_portfolio_risk
RiskInputs ==
    [initial_capital : InitialCapitals, strategy_analysis : RiskAnalyses,
     available_capital : Capitals, position_risk : {Empty}, positions : {<<>>}]
    \cup [initial_capital : {100000}, strategy_analysis : {Empty},
          available_capital : {100000}, position_risk : PositionRisks,
          positions : {<<>>}]
    \cup [initial_capital : InitialCapitals, strategy_analysis : {Empty},
          available_capital : {100000}, position_risk : {Empty},
          positions : SeqUpTo(PortfolioPositions, MaxPortfolio)]

\* the call of line 365 of analyze_trade_risk: the risk level passed is
\* the one assess_risk_level gave for the same position risk
GenerateTradeRecommendation ==
    /\ riskOut.fn = "none"
    /\ riskOut' = [fn |-> "_generate_trade_recommendation",
                   result |-> _generate_trade_recommendation(
                                  riskIn.position_risk,
                                  assess_risk_level(riskIn.position_risk))]
    /\ UNCHANGED <<riskIn, nonRiskVars>>

CalculateOptimalSize ==
    /\ riskOut.fn = "none"
    /\ riskOut' = [fn |-> "calculate_optimal_size",
                   result |-> calculate_optimal_size(riskIn.strategy_analysis,
                                                     riskIn.available_capital)]
    /\ UNCHANGED <<riskIn, nonRiskVars>>

AnalyzeTradeRisk ==
    /\ riskOut.fn = "none"
    /\ riskOut' = [fn |-> "analyze_trade_risk",
                   result |-> analyze_trade_risk(riskIn.initial_capital,
                                                 riskIn.strategy_analysis,
                                                 riskIn.available_capital)]
    /\ UNCHANGED <<riskIn, nonRiskVars>>

AnalyzePortfolioRisk ==
    /\ riskOut.fn = "none"
    /\ riskOut' = [fn |-> "analyze_portfolio_risk",
                   result |-> analyze_portfolio_risk(riskIn.initial_capital,
                                                     riskIn.positions)]
    /\ UNCHANGED <<riskIn, nonRiskVars>>

\* position_size
PositionSizes == {1, 3}

CalculatePositionRisk ==
    /\ riskOut.fn = "none"
    /\ \E position_size \in PositionSizes :
         riskOut' = [fn |-> "calculate_position_risk",
                     result |-> calculate_position_risk(riskIn.initial_capital,
                                                        riskIn.strategy_analysis,
                                                        position_size)]
    /\ UNCHANGED <<riskIn, nonRiskVars>>

RiskInit ==
    /\ StoreInit
    /\ RollIdle
    /\ PayoffIdle
    /\ PriceIdle
    /\ SpreadIdle
    /\ RankIdle
    /\ ValIdle
    /\ ScreenIdle
    /\ riskIn \in RiskInputs
    /\ riskOut = [fn |-> "none", result |-> Empty]

RiskNext ==
    \/ GenerateTradeRecommendation
    \/ CalculateOptimalSize
    \/ AnalyzeTradeRisk
    \/ AnalyzePortfolioRisk
    \/ CalculatePositionRisk

RiskSpec == RiskInit /\ [][RiskNext]_vars

----------------------------------------------------------------------------
(* option_price and analyze_option applied to bounded arguments            *)
(* (specification PriceSpec)                                               *)

\* spot and strike
PriceLevels == {90, 100, 110}

\* days to expiry (T = days / 365), one of them negative
PriceDays == {-5, 0, 30}

\* sigma in percent, one of them negative
PriceSigmas == {-10, 0, 30}

\* norm.cdf(d1) and norm.cdf(d2) where the code computes d1 and d2
PriceCdfs(days, sigma_pct) ==
    IF days > 0 /\ sigma_pct > 0
    THEN {<<(<<3, 5>>), (<<11, 20>>)>>, <<(<<1, 5>>), (<<17, 100>>)>>}
    ELSE {<<(<<1, 2>>), (<<1, 2>>)>>}

\* the arguments of option_price for one T and one sigma
OptionPriceInputsFor(days, sigma_pct) ==
    {[fn |-> "option_price", S |-> S, K |-> K, days |-> days, r_pct |-> r_pct,
      sigma_pct |-> sigma_pct, option_type |-> option_type,
      cdf_d1 |-> cdf[1], cdf_d2 |-> cdf[2]] :
        S \in PriceLevels, K \in PriceLevels, r_pct \in {0, 5},
        option_type \in {"call", "put"}, cdf \in PriceCdfs(days, sigma_pct)}

\* the arguments of option_price
OptionPriceInputs ==
    UNION {OptionPriceInputsFor(days, sigma_pct) :
              days \in PriceDays, sigma_pct \in PriceSigmas}

\* quotes for analyze_option: quoted and unquoted, with a strike, with a
\* strike of 0 and without one
AnalyzeQuotes ==
    {Quote(type, has_strike, strike, ba[1], ba[2], ba[3], 200, 1000, 30,
           IF type = "call" THEN 30 ELSE -30, 70) :
        type \in {"call", "put"},
        has_strike \in BOOLEAN,
        strike \in {0, 95},
        ba \in {<<100, 108, 104>>, <<0, 0, 104>>, <<0, 0, 0>>}}

\* the arguments of analyze_option: days_to_expiry >= 0
AnalyzeOptionInputs ==
    [fn : {"analyze_option"}, option_data : AnalyzeQuotes,
     stock_price : {0, 100}, days_to_expiry : {0, 30}]

OptionPrice ==
    /\ priceIn.fn = "option_price"
    /\ priceOut.fn = "none"
    /\ priceOut' = [fn |-> "option_price",
                    result |-> option_price(priceIn.S, priceIn.K, priceIn.days,
                                            priceIn.r_pct, priceIn.sigma_pct,
                                            priceIn.option_type,
                                            priceIn.cdf_d1, priceIn.cdf_d2)]
    /\ UNCHANGED <<priceIn, nonPriceVars>>

AnalyzeOption ==
    /\ priceIn.fn = "analyze_option"
    /\ priceOut.fn = "none"
    /\ priceOut' = [fn |-> "analyze_option",
                    result |-> analyze_option(priceIn.option_data,
                                              priceIn.stock_price,
                                              priceIn.days_to_expiry)]
    /\ UNCHANGED <<priceIn, nonPriceVars>>

PriceInit ==
    /\ StoreInit
    /\ RollIdle
    /\ PayoffIdle
    /\ RiskIdle
    /\ SpreadIdle
    /\ RankIdle
    /\ ValIdle
    /\ ScreenIdle
    /\ priceIn \in OptionPriceInputs \cup AnalyzeOptionInputs
    /\ priceOut = [fn |-> "none", result |-> Empty]

PriceNext ==
    \/ OptionPrice
    \/ AnalyzeOption

PriceSpec == PriceInit /\ [][PriceNext]_vars

----------------------------------------------------------------------------
(* Claims about the position store (specification Spec)                    *)

\* C1: update_wheel_state called with a new_state outside the vocabulary
\* (idle, sell_put, assigned, sell_call, called_away) returns False and
\* leaves the table, and so the wheel_state of every stored position,
\* unchanged, whatever the position's current state.
C1_InvalidTargetRejected ==
    [][(call'[1] = "update_wheel_state" /\ call'[2] \notin WHEEL_STATES)
          => /\ ret' = FALSE
             /\ DOMAIN positions' = DOMAIN positions
             /\ \A p \in DOMAIN positions :
                    positions'[p].wheel_state = positions[p].wheel_state]_vars

\* C1 witness: an out-of-vocabulary target was just refused while a
\* position in a wheel state is stored.
C1_Witness ==
    /\ call = <<"update_wheel_state", "rolled">>
    /\ ret = FALSE
    /\ \E p \in DOMAIN positions : positions[p].wheel_state = "assigned"

\* C2: for an existing position whose wheel state is idle, the successive
\* calls update_wheel_state(sell_put), (assigned), (sell_call),
\* (called_away), (idle) each return True and after each call the
\* position's wheel_state is the requested state; the cycle ends in idle.
C2_CycleSucceeds ==
    cycle > 0 =>
        /\ ret = TRUE
        /\ cycleId \in DOMAIN positions
        /\ positions[cycleId].wheel_state = WheelCycle[cycle]

\* C2 witness: all five requests of the cycle were made and the position
\* is back in idle.
C2_Witness ==
    /\ cycle = 5
    /\ cycleId \in DOMAIN positions
    /\ positions[cycleId].wheel_state = "idle"

\* C3: in every reachable state of the store each stored position's wheel
\* state is one of idle, sell_put, assigned, sell_call, called_away, or
\* empty for a position that did not opt into wheel tracking.
C3_WheelStateInVocabulary ==
    \A p \in DOMAIN positions :
        positions[p].wheel_state \in WHEEL_STATES \cup {""}

----------------------------------------------------------------------------
(* Claims about the spread functions (specification SpreadSpec)            *)

\* both legs of the call have a strike
SpreadStrikesGiven == spreadIn.short.has_strike /\ spreadIn.long.has_strike

\* C4: analyze_bull_put_spread returns the empty result whenever
\* short_strike <= long_strike, analyze_bear_call_spread returns it
\* whenever long_strike <= short_strike, and a non-empty spread therefore
\* has the strike ordering of its kind.
C4_StrikeOrdering ==
    /\ (/\ spreadOut.fn = "analyze_bull_put_spread"
         /\ SpreadStrikesGiven
         /\ spreadIn.short.strike <= spreadIn.long.strike)
            => spreadOut.result = Empty
    /\ (/\ spreadOut.fn = "analyze_bear_call_spread"
         /\ SpreadStrikesGiven
         /\ spreadIn.long.strike <= spreadIn.short.strike)
            => spreadOut.result = Empty
    /\ (spreadOut.fn = "analyze_bull_put_spread" /\ spreadOut.result # Empty)
            => spreadOut.result.strikes.put_short
                   > spreadOut.result.strikes.put_long
    /\ (spreadOut.fn = "analyze_bear_call_spread" /\ spreadOut.result # Empty)
            => spreadOut.result.strikes.call_long
                   > spreadOut.result.strikes.call_short

\* C4 witness: a bull put spread was asked for on two priced puts of the
\* same strike, 30 days out, and the answer was empty.
C4_Witness ==
    /\ spreadOut.fn = "analyze_bull_put_spread"
    /\ SpreadStrikesGiven
    /\ spreadIn.short.strike = spreadIn.long.strike
    /\ spreadIn.days_to_expiry = 30
    /\ spreadIn.short.bid > 0 /\ spreadIn.long.bid > 0
    /\ spreadOut.result = Empty

\* twice the mid price of a quote in cents, from its bid, ask and last price
Mid2(q) == IF q.bid > 0 /\ q.ask > 0 THEN q.bid + q.ask ELSE 2 * q.lastPrice

\* C5: for a bull put spread that is returned (short_strike > long_strike,
\* both legs analyzable) net_credit = (short_mid - long_mid) x 100,
\* max_profit = net_credit, max_loss = (short_strike - long_strike) x 100
\* - net_credit and breakeven = short_strike - net_credit / 100; strikes
\* 95 / 90 give max_loss = 500 - net_credit, breakeven = 95 - net_credit/100.
C5_BullPutFormulas ==
    (spreadOut.fn = "analyze_bull_put_spread" /\ spreadOut.result # Empty) =>
        LET r == spreadOut.result.returns
            ks == spreadIn.short.strike
            kl == spreadIn.long.strike
        IN  /\ ks > kl
            /\ r.net_credit = Norm(Mid2(spreadIn.short) - Mid2(spreadIn.long), 2)
            /\ r.max_profit = r.net_credit
            /\ RatAdd(r.max_loss, r.net_credit) = R((ks - kl) * 100)
            /\ RatAdd(RatMul(r.breakeven, R(100)), r.net_credit) = R(ks * 100)
            /\ (ks = 95 /\ kl = 90) =>
                   /\ r.max_loss = RatSub(R(500), r.net_credit)
                   /\ r.breakeven = RatSub(R(95), RatDiv(r.net_credit, R(100)))

\* C5 witness: the 95 / 90 bull put spread, 30 days out, returned with a
\* positive net credit.
C5_Witness ==
    /\ spreadOut.fn = "analyze_bull_put_spread"
    /\ spreadOut.result # Empty
    /\ spreadIn.short.strike = 95 /\ spreadIn.long.strike = 90
    /\ spreadIn.stock_price = 100 /\ spreadIn.days_to_expiry = 30
    /\ RatLt(R(0), spreadOut.result.returns.net_credit)

----------------------------------------------------------------------------
(* Claims about rank_selling_opportunities (specification RankSpec)        *)

\* pi places the records of inp, each with a score added, in the order of out
IsRankingBy(pi, inp, out) ==
    \A i \in 1..Len(out) :
        /\ "score" \in DOMAIN out[i]
        /\ out[i] = With(inp[pi[i]], "score", out[i].score)

\* C10: rank_selling_opportunities returns a permutation of its input
\* records (each with a score added), ordered by non-increasing score, and
\* two records of equal score keep the relative order they had in the input.
C10_RankStablePermutation ==
    rankOut.fn = "rank_selling_opportunities" =>
        LET out == rankOut.result
        IN  /\ Len(out) = Len(rankIn)
            /\ \E pi \in Permutations(1..Len(rankIn)) :
                  /\ IsRankingBy(pi, rankIn, out)
                  /\ \A i, j \in 1..Len(out) :
                        i < j =>
                            /\ RatLe(out[j].score, out[i].score)
                            /\ out[i].score = out[j].score => pi[i] < pi[j]

\* C10 witness: a list of three was ranked, the ranking moved a record
\* forward, and it holds two different records of equal score.
C10_Witness ==
    /\ rankOut.fn = "rank_selling_opportunities"
    /\ Len(rankIn) = 3
    /\ RatLt(OpportunityScore(rankIn[1]), OpportunityScore(rankIn[3]))
    /\ \E i, j \in 1..Len(rankOut.result) :
          /\ i < j
          /\ rankOut.result[i].score = rankOut.result[j].score
          /\ rankOut.result[i] # rankOut.result[j]

\* the five components of a score, in the order the code adds them
ScoreComponents(opp) ==
    <<ReturnPoints(opp.returns), ProbabilityPoints(opp),
      R(LiquidityPoints(opp)), RiskRewardPoints(opp.returns),
      R(DeltaPoints(opp))>>

ComponentCaps == <<30, 25, 20, 15, 10>>

\* C11: the score of every ranked opportunity is the sum of five components,
\* each at most its cap (annualized return 30, profit probability 25,
\* liquidity 20, risk / reward 15 and zero unless max_loss is finite and
\* positive, delta 10), and therefore at most 100.
C11_ScoreAtMost100 ==
    rankOut.fn = "rank_selling_opportunities" =>
        \A i \in 1..Len(rankOut.result) :
            LET opp == rankOut.result[i]
                c == ScoreComponents(opp)
                max_loss == Get(opp.returns, "max_loss", Inf)
            IN  /\ opp.score = RatAdd(RatAdd(RatAdd(RatAdd(c[1], c[2]), c[3]), c[4]), c[5])
                /\ \A k \in 1..5 : RatLe(c[k], R(ComponentCaps[k]))
                /\ (max_loss = Inf \/ RatLe(max_loss, R(0))) => c[4] = R(0)
                /\ RatLe(opp.score, R(100))

\* C11 witness: an opportunity whose yield of 20 percent would give 40
\* return points, and whose max_profit / max_loss of 1 would give 30 risk /
\* reward points, was ranked with a score of exactly 100.
C11_Witness ==
    /\ rankOut.fn = "rank_selling_opportunities"
    /\ \E i \in 1..Len(rankOut.result) :
          /\ rankOut.result[i].score = R(100)
          /\ rankOut.result[i].returns.annualized_yield = R(20)
          /\ rankOut.result[i].returns.max_profit = rankOut.result[i].returns.max_loss

\* C12: the score of every ranked opportunity that analyze_covered_call
\* returned is at least 0, also when its max_profit is negative.
C12_ScoreAtLeast0 ==
    rankOut.fn = "rank_selling_opportunities" =>
        \A i \in 1..Len(rankOut.result) :
            rankOut.result[i].strategy_type = "covered_call" =>
                RatLe(R(0), rankOut.result[i].score)

----------------------------------------------------------------------------
(* Claims about the validators (specification ValidatorSpec)               *)

\* C7: _validate_covered_call accepts exactly when min_delta <= |delta| <=
\* max_delta, annualized_yield >= min_annualized_return and
\* prob_profit_short >= min_profit_probability; _validate_short_strangle
\* accepts exactly when profit_probability >= min_profit_probability,
\* net_credit > 0 and annualized_yield >= min_annualized_return; neither
\* raises.  Fields absent from the analysis count as 0.
C7_ValidatorsExact ==
    LET config == valIn.config
        sa == valIn.strategy_analysis
        returns == Get(sa, "returns", Empty)
    IN  /\ valOut.raised = FALSE
        /\ valOut.fn = "_validate_covered_call" =>
              (valOut.result <=>
                 /\ RatLe(config.min_delta, LegDelta(sa))
                 /\ RatLe(LegDelta(sa), config.max_delta)
                 /\ RatLe(config.min_annualized_return, LegAnnualizedYield(sa))
                 /\ RatLe(config.min_profit_probability, LegProbProfit(sa)))
        /\ valOut.fn = "_validate_short_strangle" =>
              (valOut.result <=>
                 /\ RatLe(config.min_profit_probability,
                          Get(returns, "profit_probability", R(0)))
                 /\ RatLt(R(0), Get(returns, "net_credit", R(0)))
                 /\ RatLe(config.min_annualized_return,
                          Get(returns, "annualized_yield", R(0))))

\* C7 witness: with min_profit_probability 70 and min_annualized_return 10
\* the covered call validator accepted delta 0.2, yield 12, probability 80.
C7_Witness ==
    /\ valOut.fn = "_validate_covered_call"
    /\ valOut.result = TRUE
    /\ valIn.config.min_profit_probability = R(70)
    /\ valIn.config.min_annualized_return = R(10)
    /\ valIn.strategy_analysis \in FullAnalyses
    /\ valIn.strategy_analysis.returns.annualized_yield = R(12)
    /\ valIn.strategy_analysis.probabilities.prob_profit_short = R(80)

----------------------------------------------------------------------------
(* Claims about the screens (specification ScreenSpec)                     *)

ScreenMethods ==
    {"screen_covered_calls", "screen_cash_secured_puts", "screen_short_strangles",
     "screen_bull_put_spreads", "screen_bear_call_spreads"}

\* C6: no opportunity returned by a screen_* method, whatever the strategy,
\* has an annualized_yield below the configured min_annualized_return.
C6_MinAnnualizedReturnEnforced ==
    screenOut.fn \in ScreenMethods =>
        \A i \in 1..Len(screenOut.result) :
            RatLe(screenConfig.min_annualized_return,
                  screenOut.result[i].returns.annualized_yield)

\* the liquid puts of the symbol's expiry record that lie below the stock
\* price, as a set
LiquidPutsBelow(sym) ==
    {q \in {sym.opportunities[1].puts[i] : i \in 1..Len(sym.opportunities[1].puts)} :
        /\ q.has_strike
        /\ _validate_option_liquidity(screenConfig, q)
        /\ q.strike < sym.stock_price}

\* the pairs (short leg, long leg) of those puts the screen is to turn into
\* a spread: higher strike short, width within the configured range, a
\* positive net credit
BullPutPairs(sym) ==
    {pr \in LiquidPutsBelow(sym) \X LiquidPutsBelow(sym) :
        /\ screenConfig.spread_width_min <= pr[1].strike - pr[2].strike
        /\ pr[1].strike - pr[2].strike <= screenConfig.spread_width_max
        /\ LET analysis == analyze_bull_put_spread(sym.stock_price, pr[1], pr[2],
                                                   sym.opportunities[1].days_to_expiry)
           IN  analysis # Empty /\ RatLt(R(0), analysis.returns.net_credit)}

\* C8: screen_bull_put_spreads returns a spread for every pair of liquid
\* puts below the stock price whose strike difference (higher strike short)
\* is within [spread_width_min, spread_width_max], in whatever order the
\* chain lists the puts.  Stated for a symbol the screen does not skip (no
\* earnings skip, every put with a strike), pairs with a positive net
\* credit, and no more pairs than max_results_per_symbol.
C8_BullPutPairsAnyOrder ==
    LET sym == market[1]
    IN  (/\ screenOut.fn = "screen_bull_put_spreads"
         /\ ~(is_earnings_week(sym.opportunities[1].expiry_date, sym)
               /\ Get(screenConfig, "avoid_earnings", FALSE))
         /\ \A i \in 1..Len(sym.opportunities[1].puts) :
               sym.opportunities[1].puts[i].has_strike
         /\ Cardinality(BullPutPairs(sym)) <= screenConfig.max_results_per_symbol)
        => \A pr \in BullPutPairs(sym) :
              \E i \in 1..Len(screenOut.result) :
                  screenOut.result[i].strikes =
                      [put_short |-> pr[1].strike, put_long |-> pr[2].strike]

\* the categories for which screen_all_strategies has candidates
CategoriesWithCandidates ==
    {c \in 1..Len(StrategyCategories) :
        CategoryOpportunities(screenConfig, market, c) # <<>>}

\* C9: with max_results_per_strategy_total in the config and max_results at
\* least the number of categories that have candidates, the list
\* get_top_opportunities returns holds an opportunity of each of them.
C9_TopBalancesStrategyMix ==
    (/\ screenOut.fn = "get_top_opportunities"
     /\ "max_results_per_strategy_total" \in DOMAIN screenConfig
     /\ Cardinality(CategoriesWithCandidates) <= screenOut.max_results)
    => \A c \in CategoriesWithCandidates :
          \E i \in 1..Len(screenOut.result) :
              screenOut.result[i].strategy_category = StrategyCategories[c].category

----------------------------------------------------------------------------
(* Claims about the risk manager (specification RiskSpec)                  *)

\* C13: _generate_trade_recommendation takes the first rule that matches:
\* capital_at_risk_pct > 5 gives AVOID; otherwise > 3 gives CAUTION;
\* otherwise risk_reward_ratio > 4 gives CAUTION; otherwise
\* capital_at_risk_pct <= 1 with risk_reward_ratio <= 2 gives STRONG_BUY;
\* otherwise 1 < capital_at_risk_pct <= 3 with risk_reward_ratio <= 3 gives
\* BUY; otherwise HOLD.
C13_RecommendationRules ==
    riskOut.fn = "_generate_trade_recommendation" =>
        LET pct == Get(riskIn.position_risk, "capital_at_risk_pct", R(0))
            rr == Get(riskIn.position_risk, "risk_reward_ratio", Inf)
            action == riskOut.result
        IN  /\ RatLt(R(5), pct) => action = "AVOID"
            /\ RatLe(pct, R(5)) /\ RatLt(R(3), pct) => action = "CAUTION"
            /\ RatLe(pct, R(3)) /\ RatLt(R(4), rr) => action = "CAUTION"
            /\ RatLe(pct, R(1)) /\ RatLe(rr, R(2)) => action = "STRONG_BUY"
            /\ RatLt(R(1), pct) /\ RatLe(pct, R(3)) /\ RatLe(rr, R(3)) => action = "BUY"
            /\ \/ RatLe(pct, R(1)) /\ RatLt(R(2), rr) /\ RatLe(rr, R(4))
               \/ RatLt(R(1), pct) /\ RatLe(pct, R(3)) /\ RatLt(R(3), rr) /\ RatLe(rr, R(4))
               => action = "HOLD"

\* C13 witness: a position risk of 6 percent with a risk / reward ratio of 1,
\* to which the AVOID rule and no later one applies first, got AVOID.
C13_Witness ==
    /\ riskOut.fn = "_generate_trade_recommendation"
    /\ riskIn.position_risk = [capital_at_risk_pct |-> R(6), risk_reward_ratio |-> R(1)]
    /\ riskOut.result = "AVOID"

\* n = floor(x) for an integer n and a number x >= 0
IsFloor(n, x) == RatLe(R(n), x) /\ RatLt(x, R(n + 1))

\* C14: for a finite, positive max_loss calculate_optimal_size recommends
\* min(floor(0.02 x capital / max_loss), floor(0.5 x capital /
\* margin_per_contract), 10) contracts; for max_loss <= 0 or unbounded it
\* recommends 0; the size is always an integer in 0..10, and it is 0 whenever
\* max_loss of one contract is more than 2 percent of the capital.
C14_OptimalSize ==
    riskOut.fn = "calculate_optimal_size" =>
        LET max_loss == Get(Get(riskIn.strategy_analysis, "returns", Empty), "max_loss", R(0))
            capital == R(riskIn.available_capital)
            margin == _calculate_margin_requirement(riskIn.strategy_analysis, 1)
            size == riskOut.result.recommended_size
        IN  /\ size \in 0..10
            /\ max_loss = Inf \/ RatLe(max_loss, R(0)) => size = 0
            /\ max_loss # Inf /\ RatLt(R(0), max_loss) =>
                  \E a, b \in 0..500 :
                      /\ IsFloor(a, RatDiv(RatMul(<<1, 50>>, capital), max_loss))
                      /\ IsFloor(b, RatDiv(RatMul(<<1, 2>>, capital), margin))
                      /\ size = Min3(a, b, 10)
            /\ max_loss # Inf /\ RatLt(RatMul(<<1, 50>>, capital), max_loss) => size = 0

\* C14 witness: sizes limited by the risk budget, by the margin and by the
\* limit of 10 contracts: the covered call of the tests (max_loss 500,
\* margin 10000 per contract) on a capital of 100000 has a risk-based size
\* of 4 and a margin-based size of 5, and 4 contracts were recommended.
C14_Witness ==
    /\ riskOut.fn = "calculate_optimal_size"
    /\ riskIn.strategy_analysis = TestAnalysis("covered_call", 100, 105, 200, 500)
    /\ riskIn.available_capital = 100000
    /\ riskOut.result.risk_based_size = 4
    /\ riskOut.result.margin_based_size = 5
    /\ riskOut.result.recommended_size = 4

\* C27: whenever calculate_optimal_size recommends a positive number of
\* contracts, recommended_size x max_loss is at most 2 percent of the
\* available capital and recommended_size x margin_per_contract is at most
\* 50 percent of it.
C27_SizeWithinBudgets ==
    (riskOut.fn = "calculate_optimal_size" /\ riskOut.result.recommended_size > 0) =>
        LET max_loss == Get(Get(riskIn.strategy_analysis, "returns", Empty), "max_loss", R(0))
            capital == R(riskIn.available_capital)
            margin_per_contract == _calculate_margin_requirement(riskIn.strategy_analysis, 1)
            size == R(riskOut.result.recommended_size)
        IN  /\ RatLe(RatMul(size, max_loss), RatMul(<<1, 50>>, capital))
            /\ RatLe(RatMul(size, margin_per_contract), RatMul(<<1, 2>>, capital))
            /\ riskOut.result.margin_required = RatMul(size, margin_per_contract)

\* C27 witness: a covered call with max_loss 300 and a margin of 10000 per
\* contract on a capital of 100000: the risk budget allows 6 contracts, the
\* margin budget 5, and the 5 recommended use the whole margin budget.
C27_Witness ==
    /\ riskOut.fn = "calculate_optimal_size"
    /\ riskIn.strategy_analysis = TestAnalysis("covered_call", 100, 105, 200, 300)
    /\ riskIn.available_capital = 100000
    /\ riskOut.result.risk_based_size = 6
    /\ riskOut.result.recommended_size = 5
    /\ riskOut.result.margin_required = R(50000)

\* C15: for every strategy analysis and capital the record analyze_trade_risk
\* returns has the keys recommendation, risk_level, position_risk and
\* sizing_info, and its recommendation is one of STRONG_BUY, BUY, HOLD,
\* CAUTION, AVOID, ERROR.
C15_TradeRiskKeys ==
    riskOut.fn = "analyze_trade_risk" =>
        /\ {"recommendation", "risk_level", "position_risk", "sizing_info"}
               \subseteq DOMAIN riskOut.result
        /\ riskOut.result.recommendation
               \in {"STRONG_BUY", "BUY", "HOLD", "CAUTION", "AVOID", "ERROR"}

\* C16: when calculate_portfolio_risk fails on a portfolio with positions
\* (initial_capital = 0, so that it produces no metrics),
\* analyze_portfolio_risk reports the overall risk level as unknown.
C16_FailedPortfolioIsUnknown ==
    /\ riskOut.fn = "analyze_portfolio_risk"
    /\ riskIn.positions # <<>>
    /\ riskIn.initial_capital = 0
    => /\ riskOut.result.portfolio_metrics = Empty
       /\ riskOut.result.overall_risk_level = "unknown_risk"

----------------------------------------------------------------------------
(* Claims about the pricing functions (specification PriceSpec)            *)

\* C17: whenever T <= 0 or sigma <= 0, option_price returns the intrinsic
\* value, max(S - K, 0) for a call and max(K - S, 0) for a put.
C17_IntrinsicWhenDegenerate ==
    /\ priceOut.fn = "option_price"
    /\ priceIn.days <= 0 \/ priceIn.sigma_pct <= 0
    => priceOut.result =
          IF priceIn.option_type = "call"
          THEN RatMax(R(priceIn.S - priceIn.K), R(0))
          ELSE RatMax(R(priceIn.K - priceIn.S), R(0))

\* the sections of a complete analysis record
AnalysisSections ==
    {"basic_info", "pricing", "greeks", "probabilities", "returns", "liquidity"}

\* C18: for any quote, spot and days_to_expiry >= 0 analyze_option returns
\* either a complete analysis record or the empty record, and it returns the
\* empty record when the quote has no strike and when a quoted option has
\* days_to_expiry = 0 (a division by zero).
C18_CompleteOrEmpty ==
    priceOut.fn = "analyze_option" =>
        /\ \/ priceOut.result = Empty
           \/ /\ DOMAIN priceOut.result = AnalysisSections
              /\ \A s \in AnalysisSections : priceOut.result[s] # Empty
              /\ priceOut.result.basic_info.mid_price = MidPrice(priceIn.option_data)
        /\ ~priceIn.option_data.has_strike => priceOut.result = Empty
        /\ RatLt(R(0), MidPrice(priceIn.option_data)) /\ priceIn.days_to_expiry = 0
              => priceOut.result = Empty

\* C18 witness: a put with a strike of 95 quoted 1.00 / 1.08 on a stock at
\* 100 was analyzed with days_to_expiry = 0, and the result is the empty
\* record.
C18_Witness ==
    /\ priceOut.fn = "analyze_option"
    /\ priceIn.option_data.has_strike
    /\ priceIn.option_data.type = "put"
    /\ priceIn.option_data.strike = 95
    /\ priceIn.option_data.bid = 100
    /\ priceIn.stock_price = 100
    /\ priceIn.days_to_expiry = 0
    /\ priceOut.result = Empty

----------------------------------------------------------------------------
(* Claims about the screener's config (specification ConfigSpec)           *)

\* the strategy a screen_* method screens
StrategyOf(fn) ==
    CASE fn = "screen_covered_calls" -> "covered_call"
      [] fn = "screen_cash_secured_puts" -> "cash_secured_put"
      [] fn = "screen_short_strangles" -> "short_strangle"
      [] fn = "screen_bull_put_spreads" -> "bull_put_spread"
      [] fn = "screen_bear_call_spreads" -> "bear_call_spread"

\* C19: a screener built from a config that omits keys screens exactly as
\* one whose config is the defaults overridden by the keys supplied.
C19_AbsentKeysTakeDefaults ==
    /\ screenOut.fn \in ScreenMethods =>
          screenOut.result =
              ScreenSymbols(Override(DefaultConfig, screenConfig), market,
                            StrategyOf(screenOut.fn))
    /\ screenOut.fn = "get_top_opportunities" =>
          /\ ~screenOut.raised
          /\ screenOut.result =
                get_top_opportunities(Override(DefaultConfig, screenConfig), market,
                                      screenOut.max_results)

(***************************************************************************)
(* PayoffSpec: _calculate_payoffs applied to the analyses the payoff        *)
(* diagram is drawn for, on price arrays of up to MaxPrices prices.         *)
(***************************************************************************)

\* Prices below, between, on and above the strikes of PayoffAnalyses.
PayoffPrices == {80, 90, 92, 95, 100, 105, 108, 110, 120}

\* The two spread analyses are those of test_spread_payoff_not_flat.
PayoffAnalyses ==
    { [strategy_type |-> "covered_call", stock_price |-> 100, strike |-> 105,
       returns |-> [max_profit |-> 604]],
      [strategy_type |-> "cash_secured_put", stock_price |-> 100, strike |-> 95,
       returns |-> [max_profit |-> 104]],
      [strategy_type |-> "short_strangle",
       strikes |-> [put_strike |-> 90, call_strike |-> 110],
       returns |-> [net_credit |-> 208]],
      [strategy_type |-> "bull_put_spread",
       strikes |-> [put_short |-> 95, put_long |-> 90],
       returns |-> [net_credit |-> 120]],
      [strategy_type |-> "bear_call_spread",
       strikes |-> [call_short |-> 105, call_long |-> 110],
       returns |-> [net_credit |-> 150]],
      Empty }

PayoffInputs ==
    [strategy_analysis : PayoffAnalyses, prices : SeqUpTo(PayoffPrices, MaxPrices)]

CalculatePayoffs ==
    /\ payOut.fn = "none"
    /\ payOut' = [fn |-> "_calculate_payoffs",
                  result |-> _calculate_payoffs(payIn.strategy_analysis, payIn.prices)]
    /\ UNCHANGED <<payIn, nonPayoffVars>>

PayoffInit ==
    /\ StoreInit
    /\ RollIdle
    /\ RiskIdle
    /\ PriceIdle
    /\ SpreadIdle
    /\ RankIdle
    /\ ValIdle
    /\ ScreenIdle
    /\ payIn \in PayoffInputs
    /\ payOut = [fn |-> "none", result |-> <<>>]

PayoffNext == CalculatePayoffs

PayoffSpec == PayoffInit /\ [][PayoffNext]_vars

(***************************************************************************)
(* Claims about the payoff calculation (PayoffSpec)                         *)
(***************************************************************************)

\* C20: the payoff _calculate_payoffs returns for a vertical spread is not
\* flat: for a bull put spread it equals net_credit at every price at or
\* above the short put strike and is strictly lower at every price below the
\* long put strike; for a bear call spread it equals net_credit at every
\* price at or below the short call strike and is strictly lower at every
\* price above the long call strike.
C20_SpreadPayoffNotFlat ==
    payOut.fn = "_calculate_payoffs" =>
        LET a == payIn.strategy_analysis
            prices == payIn.prices
            strategy_type == Get(a, "strategy_type", "")
            net_credit == a.returns.net_credit
        IN  /\ strategy_type = "bull_put_spread" =>
                \A i \in 1..Len(prices) :
                    /\ prices[i] >= a.strikes.put_short => payOut.result[i] = net_credit
                    /\ prices[i] < a.strikes.put_long => payOut.result[i] < net_credit
            /\ strategy_type = "bear_call_spread" =>
                \A i \in 1..Len(prices) :
                    /\ prices[i] <= a.strikes.call_short => payOut.result[i] = net_credit
                    /\ prices[i] > a.strikes.call_long => payOut.result[i] < net_credit

----------------------------------------------------------------------------
(* The screens applied to a batch of symbols (specification BatchSpec):    *)
(* up to two symbols with up to two expiry records each, some records with *)
(* an expiry date that does not parse, some chains with a quote that has   *)
(* no strike.                                                              *)

\* one expiry record days_to_expiry days out
BatchRecord(days_to_expiry, parses, calls, puts) ==
    [expiry_date |-> days_to_expiry, expiry_date_parses |-> parses,
     days_to_expiry |-> days_to_expiry, calls |-> calls, puts |-> puts]

\* a record of liquid quotes, the same record with a malformed expiry date,
\* and a record whose chains end with a quote without a strike
BatchRecords(days_to_expiry) ==
    LET C105 == Quote("call", TRUE, 105, 100, 108, 104, 200, 1000, 30, 30, 70)
        C110 == Quote("call", TRUE, 110, 50, 54, 52, 200, 1000, 30, 15, 85)
        P95 == Quote("put", TRUE, 95, 100, 108, 104, 200, 1000, 30, -30, 75)
        P90 == Quote("put", TRUE, 90, 50, 54, 52, 200, 1000, 30, -15, 85)
        CNone == Quote("call", FALSE, 0, 50, 54, 52, 200, 1000, 30, 15, 85)
        PNone == Quote("put", FALSE, 0, 50, 54, 52, 200, 1000, 30, -15, 85)
    IN  {BatchRecord(days_to_expiry, TRUE, <<C105, C110>>, <<P95, P90>>),
         BatchRecord(days_to_expiry, FALSE, <<C105, C110>>, <<P95, P90>>),
         BatchRecord(days_to_expiry, TRUE, <<C105, CNone>>, <<P95, PNone>>)}

\* a symbol at 100 with expiries 30 and, possibly, 45 days out
BatchSymbols(symbol) ==
    {[symbol |-> symbol, stock_price |-> 100,
      has_earnings |-> FALSE, next_earnings_date |-> 0,
      opportunities |-> opps] :
        opps \in {<<r>> : r \in BatchRecords(30)}
                 \cup (BatchRecords(30) \X BatchRecords(45))}

BatchMarkets ==
    {<<a>> : a \in BatchSymbols("AAA")}
        \cup (BatchSymbols("AAA") \X BatchSymbols("BBB"))

BatchInit ==
    /\ StoreInit
    /\ RollIdle
    /\ PayoffIdle
    /\ PriceIdle
    /\ RiskIdle
    /\ SpreadIdle
    /\ RankIdle
    /\ ValIdle
    /\ screenConfig = OptionsScreener(Empty)
    /\ market \in BatchMarkets
    /\ screenOut = [fn |-> "none", max_results |-> 0, raised |-> FALSE, result |-> <<>>]

BatchNext ==
    \/ ScreenCoveredCalls
    \/ ScreenCashSecuredPuts
    \/ ScreenShortStrangles
    \/ ScreenBullPutSpreads
    \/ ScreenBearCallSpreads
    \/ GetTopOpportunities

BatchSpec == BatchInit /\ [][BatchNext]_vars

----------------------------------------------------------------------------
(* Claims about batch screening (BatchSpec)                                *)

\* the market without its failing candidates: the expiry records whose date
\* parses, and in them the quotes that have a strike
ValidCandidates(symbols) ==
    [s \in 1..Len(symbols) |->
        [symbols[s] EXCEPT !.opportunities =
            LET parsed == SelectSeq(symbols[s].opportunities,
                                    LAMBDA opp : opp.expiry_date_parses)
            IN  [k \in 1..Len(parsed) |->
                    [parsed[k] EXCEPT
                        !.calls = SelectSeq(parsed[k].calls, LAMBDA q : q.has_strike),
                        !.puts = SelectSeq(parsed[k].puts, LAMBDA q : q.has_strike)]]]]

\* C21: a failure on one candidate of a symbol (an expiry record with a
\* malformed date, a quote without a strike) only excludes that candidate:
\* no exception leaves the screen_* method, and every opportunity the screen
\* finds among the valid candidates, of the same symbol and of the other
\* symbols, is in the result.
C21_CandidateFailureIsLocal ==
    screenOut.fn \in ScreenMethods =>
        /\ ~screenOut.raised
        /\ LET valid == ScreenSymbols(screenConfig, ValidCandidates(market),
                                      StrategyOf(screenOut.fn))
           IN  \A i \in 1..Len(valid) :
                   \E j \in 1..Len(screenOut.result) : screenOut.result[j] = valid[i]

----------------------------------------------------------------------------
(* Claims about the earnings exclusion (ScreenSpec)                        *)

\* C22: when the config enables avoid_earnings, no opportunity returned by a
\* screen_* method (covered call, cash-secured put, short strangle, bull put
\* spread, bear call spread) has an expiry date within 7 days of the next
\* known earnings date of its symbol.
C22_NoExpiryInEarningsWeek ==
    (screenOut.fn \in ScreenMethods /\ Get(screenConfig, "avoid_earnings", FALSE)) =>
        \A i \in 1..Len(screenOut.result) :
            \A s \in 1..Len(market) :
                (market[s].symbol = screenOut.result[i].symbol /\ market[s].has_earnings)
                    => Abs(screenOut.result[i].expiry_date
                             - market[s].next_earnings_date) > 7

----------------------------------------------------------------------------
(* The roll advisor applied to bounded positions (specification RollSpec)  *)

RollStrategies ==
    {"cash_secured_put", "short_put", "covered_call", "short_call", "short_strangle"}

\* strikes from 0 and a few dollars up to 100, stock prices from 40 cents
\* to 110
RollStrikes == {R(0), <<5, 2>>, R(3), R(5), R(100)}

RollPrices == {<<2, 5>>, R(4), R(10), R(30), R(90), R(100), R(110)}

\* whole days from now to the expiry date of the position
RollDtes == {-5, 0, 5, 14, 30}

\* a stored position as the roll advisor reads it
RollPosition(symbol, strategy_type, strike, expiry_date_parses) ==
    [symbol |-> symbol, strategy_type |-> strategy_type, strike |-> strike,
     expiry_date_parses |-> expiry_date_parses,
     premium_per_contract |-> <<3, 2>>, contracts |-> 1]

RollInputs ==
    {[position |-> RollPosition(symbol, strategy_type, strike, parses),
      current_stock_price |-> price, current_dte |-> dte] :
        symbol \in {"AAA", ""}, strategy_type \in RollStrategies,
        strike \in RollStrikes, parses \in BOOLEAN,
        price \in RollPrices, dte \in RollDtes}

\* suggest_rolls: a date that does not parse is replaced by datetime.now(),
\* which the later datetime.now() has passed
SuggestRolls ==
    /\ rollOut.fn = "none"
    /\ rollOut' = [fn |-> "suggest_rolls",
                   result |-> suggest_rolls(rollIn.position,
                                            rollIn.current_stock_price,
                                            IF rollIn.position.expiry_date_parses
                                            THEN rollIn.current_dte ELSE -1)]
    /\ UNCHANGED <<rollIn, nonRollVars>>

GetRollRecommendation ==
    /\ rollOut.fn = "none"
    /\ rollOut' = [fn |-> "get_roll_recommendation",
                   result |-> get_roll_recommendation(
                                  rollIn.position, rollIn.current_stock_price,
                                  IF rollIn.position.expiry_date_parses
                                  THEN rollIn.current_dte ELSE 999)]
    /\ UNCHANGED <<rollIn, nonRollVars>>

RollInit ==
    /\ StoreInit
    /\ PayoffIdle
    /\ PriceIdle
    /\ RiskIdle
    /\ SpreadIdle
    /\ RankIdle
    /\ ValIdle
    /\ ScreenIdle
    /\ rollIn \in RollInputs
    /\ rollOut = [fn |-> "none", result |-> <<>>]

RollNext ==
    \/ SuggestRolls
    \/ GetRollRecommendation

RollSpec == RollInit /\ [][RollNext]_vars

----------------------------------------------------------------------------
(* One call on any store (specification WheelSpec): the store starts in    *)
(* any state the store operations lead to, and one operation of the store  *)
(* or of the roll advisor is applied to it.                                *)

\* the rows a stored position can hold: add_position stores the wheel state
\* it is given, close_position sets the status, update_position_greeks the
\* delta
StoredRows ==
    [status : {"open", "closed"}, wheel_state : StateArgs, delta : GreekValues]

\* the positions the advisor is asked about: a short put and a covered call
\* of strike 100, in the money on their expiry date
WheelRollInputs ==
    {[position |-> RollPosition("AAA", "cash_secured_put", R(100), TRUE),
      current_stock_price |-> R(90), current_dte |-> 0],
     [position |-> RollPosition("AAA", "covered_call", R(100), TRUE),
      current_stock_price |-> R(110), current_dte |-> 0]}

GetPositions ==
    /\ select_positions
    /\ call' = <<"get_positions", "">>
    /\ CycleReset
    /\ UNCHANGED nonStoreVars

GetWheelPositions ==
    /\ select_positions
    /\ call' = <<"get_wheel_positions", "">>
    /\ CycleReset
    /\ UNCHANGED nonStoreVars

GetPortfolioSummary ==
    /\ select_positions
    /\ call' = <<"get_portfolio_summary", "">>
    /\ CycleReset
    /\ UNCHANGED nonStoreVars

\* no call has been made yet
NoCallYet == call[1] = "__init__" /\ rollOut.fn = "none"

\* ids are given out in order and never reused; any of them may have been
\* deleted
WheelInit ==
    /\ nextId \in 1..(MaxPositions + 1)
    /\ \E ids \in SUBSET (1..(nextId - 1)) : positions \in [ids -> StoredRows]
    /\ ret = TRUE
    /\ call = <<"__init__", "">>
    /\ cycleId = 1
    /\ cycle = 0
    /\ PayoffIdle
    /\ PriceIdle
    /\ RiskIdle
    /\ SpreadIdle
    /\ RankIdle
    /\ ValIdle
    /\ ScreenIdle
    /\ rollIn \in WheelRollInputs
    /\ rollOut = [fn |-> "none", result |-> <<>>]

WheelNext ==
    \/ NoCallYet /\ AddPosition
    \/ NoCallYet /\ ClosePosition
    \/ NoCallYet /\ DeletePosition
    \/ NoCallYet /\ UpdateWheelState
    \/ NoCallYet /\ UpdatePositionGreeks
    \/ NoCallYet /\ GetPositions
    \/ NoCallYet /\ GetWheelPositions
    \/ NoCallYet /\ GetPortfolioSummary
    \/ NoCallYet /\ SuggestRolls
    \/ NoCallYet /\ GetRollRecommendation

WheelSpec == WheelInit /\ [][WheelNext]_vars

----------------------------------------------------------------------------
(* Claims about the frame of the wheel state (WheelSpec)                   *)

\* the calls the claim names besides update_wheel_state
FrameCalls ==
    {"close_position", "update_position_greeks", "get_positions",
     "get_wheel_positions", "get_portfolio_summary"}

\* C23: a position's wheel state changes only through an explicit
\* update_wheel_state call: close_position, update_position_greeks, the read
\* operations (get_positions, get_wheel_positions, get_portfolio_summary)
\* and the roll advisor (suggest_rolls, get_roll_recommendation) leave the
\* stored positions in place with the wheel_state of every one unchanged, and
\* a step that changes the wheel state of a position is an update_wheel_state
\* call.
C23_WheelStateFrame ==
    [][/\ ((call' # call /\ call'[1] \in FrameCalls) \/ rollOut' # rollOut) =>
            /\ DOMAIN positions' = DOMAIN positions
            /\ \A p \in DOMAIN positions :
                   positions'[p].wheel_state = positions[p].wheel_state
       /\ (\E p \in DOMAIN positions \cap DOMAIN positions' :
               positions'[p].wheel_state # positions[p].wheel_state) =>
            call'[1] = "update_wheel_state"]_vars

\* the advisor was asked about a short put that is in the money on its
\* expiry date, and a stored open position is still in wheel state sell_put
C23_Witness ==
    /\ rollOut.fn = "suggest_rolls"
    /\ Len(rollOut.result) = 2
    /\ rollOut.result[1].is_itm
    /\ rollIn.current_dte = 0
    /\ \E p \in DOMAIN positions :
           positions[p].status = "open" /\ positions[p].wheel_state = "sell_put"

----------------------------------------------------------------------------
(* Claims about the bounded proxy of an unbounded loss (RiskSpec)          *)

\* the multiple of stock_price x 100 x position_size that stands for an
\* unbounded max_loss
ProxyMultiple(strategy_type) == IF strategy_type = "covered_call" THEN 1 ELSE 3

\* C24: calculate_position_risk replaces an unbounded max_loss by a bounded
\* proxy before it computes a percentage or a ratio: stock_price x 100 x
\* position_size for a covered call and 3 x stock_price x 100 x
\* position_size for a short strangle or straddle; capital_at_risk_pct and
\* risk_reward_ratio are computed from the proxy, and capital_at_risk_pct
\* is finite.
C24_UnboundedLossProxy ==
    (/\ riskOut.fn = "calculate_position_risk"
     /\ Get(riskIn.strategy_analysis, "strategy_type", "")
            \in {"covered_call", "short_strangle", "short_straddle"}
     /\ Get(Get(riskIn.strategy_analysis, "returns", Empty), "max_loss", Inf) = Inf) =>
        LET a == riskIn.strategy_analysis
            r == riskOut.result
            proxy == R(ProxyMultiple(a.strategy_type) * a.stock_price * 100
                         * r.position_size)
            max_profit == RatMul(a.returns.max_profit, R(r.position_size))
        IN  /\ r.max_loss = proxy
            /\ r.capital_at_risk_pct[2] # 0
            /\ r.capital_at_risk_pct =
                   (IF riskIn.initial_capital > 0
                    THEN RatMul(RatDiv(proxy, R(riskIn.initial_capital)), R(100))
                    ELSE R(0))
            /\ RatLt(R(0), max_profit) => r.risk_reward_ratio = RatDiv(proxy, max_profit)

\* the risk of three contracts of a short strangle on a stock at 100 was
\* computed from the proxy 3 x 100 x 100 x 3 = 90000, 90 percent of the
\* capital of 100000
C24_Witness ==
    /\ riskOut.fn = "calculate_position_risk"
    /\ riskIn.strategy_analysis # Empty
    /\ riskIn.strategy_analysis.strategy_type = "short_strangle"
    /\ riskIn.strategy_analysis.returns.max_loss = Inf
    /\ riskOut.result.position_size = 3
    /\ riskOut.result.max_loss = R(90000)
    /\ riskOut.result.capital_at_risk_pct = R(90)

----------------------------------------------------------------------------
(* analyze_short_strangle applied to bounded quotes (specification         *)
(* StrangleSpec): call strikes on both sides of the put strikes, quoted,   *)
(* unquoted and stale prices; the opportunity is then sized and assessed   *)
(* by the risk manager.                                                    *)

\* <<bid, ask, lastPrice>> in cents: an out-of-the-money price, an
\* in-the-money price, no quote and no trade, no bid and a stale last price
StranglePrices == {<<100, 108, 104>>, <<1000, 1080, 1040>>, <<0, 0, 0>>, <<0, 60, 55>>}

StrangleQuotes(type, strikes) ==
    {Quote(type, TRUE, k, t[1], t[2], t[3], 200, 1000, iv,
           IF type = "call" THEN 30 ELSE -30, 70) :
        k \in strikes, t \in StranglePrices, iv \in {0, 30}}
    \cup {Quote(type, FALSE, 0, 100, 108, 104, 200, 1000, 30,
                IF type = "call" THEN 30 ELSE -30, 70)}

StrangleInputs ==
    [fn : {"analyze_short_strangle"}, stock_price : {100},
     call_data : StrangleQuotes("call", {95, 105, 110}),
     put_data : StrangleQuotes("put", {90, 95, 105}),
     days_to_expiry : {0, 30}]

AnalyzeShortStrangle ==
    /\ priceOut.fn = "none"
    /\ priceIn.fn = "analyze_short_strangle"
    /\ priceOut' = [fn |-> "analyze_short_strangle",
                    result |-> analyze_short_strangle(priceIn.stock_price,
                                                      priceIn.call_data,
                                                      priceIn.put_data,
                                                      priceIn.days_to_expiry)]
    /\ UNCHANGED <<priceIn, nonPriceVars>>

\* opportunities with an unbounded max_loss that no strategy function built
UnboundedOpportunities ==
    {UnboundedAnalysis("covered_call", 100, 200),
     UnboundedAnalysis("short_straddle", 100, 300),
     UnboundedAnalysis("short_call", 100, 100)}

\* the opportunity just analysed, or an unbounded one, is handed to
\* PositionSizer.calculate_optimal_size
SizeOpportunity ==
    /\ priceOut.fn = "analyze_short_strangle"
    /\ riskOut.fn = "none"
    /\ \E strategy_analysis \in {priceOut.result} \cup UnboundedOpportunities,
          available_capital \in Capitals :
         /\ riskIn' = [initial_capital |-> 100000,
                       strategy_analysis |-> strategy_analysis,
                       available_capital |-> available_capital,
                       position_risk |-> Empty, positions |-> <<>>]
         /\ riskOut' = [fn |-> "calculate_optimal_size",
                        result |-> calculate_optimal_size(strategy_analysis,
                                                          available_capital)]
    /\ UNCHANGED <<nonRiskVars>>

\* ... or to RiskManager.analyze_trade_risk
AssessOpportunity ==
    /\ priceOut.fn = "analyze_short_strangle"
    /\ riskOut.fn = "none"
    /\ \E strategy_analysis \in {priceOut.result} \cup UnboundedOpportunities,
          available_capital \in Capitals, initial_capital \in InitialCapitals :
         /\ riskIn' = [initial_capital |-> initial_capital,
                       strategy_analysis |-> strategy_analysis,
                       available_capital |-> available_capital,
                       position_risk |-> Empty, positions |-> <<>>]
         /\ riskOut' = [fn |-> "analyze_trade_risk",
                        result |-> analyze_trade_risk(initial_capital,
                                                      strategy_analysis,
                                                      available_capital)]
    /\ UNCHANGED <<nonRiskVars>>

StrangleInit ==
    /\ StoreInit
    /\ RollIdle
    /\ PayoffIdle
    /\ RiskIdle
    /\ SpreadIdle
    /\ RankIdle
    /\ ValIdle
    /\ ScreenIdle
    /\ priceIn \in StrangleInputs
    /\ priceOut = [fn |-> "none", result |-> Empty]

StrangleNext ==
    \/ AnalyzeShortStrangle
    \/ SizeOpportunity
    \/ AssessOpportunity

StrangleSpec == StrangleInit /\ [][StrangleNext]_vars

----------------------------------------------------------------------------
(* Claims about the short strangle (StrangleSpec)                          *)

\* C25: the profit probability analyze_short_strangle reports lies in
\* [0, 100] for every pair of call and put quotes for which an opportunity
\* is returned, the pairs whose call strike is not above the put strike
\* included.
C25_StrangleProbabilityInRange ==
    (priceOut.fn = "analyze_short_strangle" /\ priceOut.result # Empty) =>
        /\ RatLe(R(0), priceOut.result.returns.profit_probability)
        /\ RatLe(priceOut.result.returns.profit_probability, R(100))

\* returns.max_loss as calculate_optimal_size reads it
MaxLossOf(strategy_analysis) ==
    Get(Get(strategy_analysis, "returns", Empty), "max_loss", R(0))

\* C28: every opportunity analyze_short_strangle returns has an unbounded
\* max_loss; for every opportunity with an unbounded max_loss and every
\* capital calculate_optimal_size recommends 0 contracts and
\* analyze_trade_risk returns AVOID with that sizing and without a position
\* risk, so calculate_position_risk is not called for it.
C28_UnboundedLossIsAvoided ==
    /\ (priceOut.fn = "analyze_short_strangle" /\ priceOut.result # Empty) =>
            MaxLossOf(priceOut.result) = Inf
    /\ (riskOut.fn = "calculate_optimal_size"
            /\ MaxLossOf(riskIn.strategy_analysis) = Inf) =>
            riskOut.result.recommended_size = 0
    /\ (riskOut.fn = "analyze_trade_risk"
            /\ MaxLossOf(riskIn.strategy_analysis) = Inf) =>
            /\ riskOut.result.recommendation = "AVOID"
            /\ riskOut.result.sizing_info.recommended_size = 0
            /\ "position_risk" \notin DOMAIN riskOut.result

\* C28 witness: the 105 / 95 strangle on a stock at 100, assessed on a
\* capital of 1000000
C28_Witness ==
    /\ riskOut.fn = "analyze_trade_risk"
    /\ priceOut.result # Empty
    /\ riskIn.strategy_analysis = priceOut.result
    /\ priceOut.result.strikes = [call_strike |-> 105, put_strike |-> 95]
    /\ priceOut.result.returns.net_credit = R(208)
    /\ riskIn.available_capital = 1000000
    /\ riskOut.result.recommendation = "AVOID"

----------------------------------------------------------------------------
(* Claims about the roll advisor (RollSpec)                                *)

RollTypes(result) == {result[i].roll_type : i \in 1..Len(result)}

\* C26: suggest_rolls returns at most three candidates; a roll_down_out
\* candidate appears only for a put position and its new strike is strictly
\* below the current strike; a roll_up_out candidate appears only for a call
\* position and its new strike is strictly above the current strike; the
\* two never appear together; the roll_out candidate keeps the current
\* strike.
C26_RollCandidatesBySide ==
    rollOut.fn = "suggest_rolls" =>
        LET result == rollOut.result
            position == rollIn.position
        IN  /\ Len(result) <= 3
            /\ ~({"roll_down_out", "roll_up_out"} \subseteq RollTypes(result))
            /\ \A i \in 1..Len(result) :
                /\ result[i].roll_type = "roll_down_out" =>
                    /\ position.strategy_type \in {"cash_secured_put", "short_put"}
                    /\ RatLt(result[i].new_strike, position.strike)
                /\ result[i].roll_type = "roll_up_out" =>
                    /\ position.strategy_type \in {"covered_call", "short_call"}
                    /\ RatLt(position.strike, result[i].new_strike)
                /\ result[i].roll_type = "roll_out" =>
                    result[i].new_strike = position.strike

\* a put whose 95 percent strike is not below the current strike, rolled
\* down by the fallback of five dollars
C26_Witness ==
    /\ rollOut.fn = "suggest_rolls"
    /\ rollIn.position.strategy_type = "short_put"
    /\ rollIn.position.strike = R(100)
    /\ rollIn.current_stock_price = R(110)
    /\ Len(rollOut.result) = 2
    /\ rollOut.result[1].roll_type = "roll_out"
    /\ rollOut.result[2].roll_type = "roll_down_out"
    /\ rollOut.result[2].new_strike = R(95)

\* C30: every roll candidate suggest_rolls returns for a position with a
\* positive strike and a positive stock price has a strictly positive
\* new_strike, low strikes of five dollars or less included.
C30_NewStrikePositive ==
    (/\ rollOut.fn = "suggest_rolls"
     /\ RatLt(R(0), rollIn.position.strike)
     /\ RatLt(R(0), rollIn.current_stock_price)) =>
        \A i \in 1..Len(rollOut.result) :
            RatLt(R(0), rollOut.result[i].new_strike)

----------------------------------------------------------------------------
(* A claim about the return value of update_wheel_state (Spec)             *)

\* C29: update_wheel_state returns True only if a position with the given
\* id is stored and its wheel_state is new_state after the call; for an id
\* that matches no stored position it does not report success.
C29_WheelUpdateReportsTruthfully ==
    [][\A position_id \in PositionIds, new_state \in StateArgs :
          (/\ call'[1] = "update_wheel_state"
           /\ update_wheel_state(position_id, new_state)
           /\ ret' = TRUE) =>
              /\ position_id \in DOMAIN positions'
              /\ positions'[position_id].wheel_state = new_state]_vars

====
